---- MODULE Spec2Model ----
(***************************************************************************)
(* rCore-N user-level IPI (UIPI) control plane: the four id allocators,    *)
(* the UINTC matrix driver, the endpoint handles and the three syscalls    *)
(* sender_ctl / receiver_ctl / connection_ctl, run by tasks on different   *)
(* harts.  A task holds its inner lock for a whole call, so each task has  *)
(* at most one call in progress; calls of different tasks interleave at    *)
(* the granularity of the pool mutexes and the matrix mutex.               *)
(*                                                                         *)
(* Memory of the UINTC is little-endian.  A bitmap is the set of the       *)
(* positions of its 1 bits, position b being bit (b % 8) of byte (b / 8);  *)
(* the u32 at byte offset a holds the positions 8a .. 8a+31.               *)
(***************************************************************************)
EXTENDS Integers, Sequences, FiniteSets, TLC

\* config.rs is not part of the sources; the pools are scaled down.
UINTC_MAX_SENDER == 2
UINTC_MAX_RECEIVER == 3

\* the number of syscalls the tasks issue in one run: on concurrent harts,
\* and one after another
MaxCalls == 4
MaxSerialCalls == 5

\* Tasks with an initialised user_trap_info; task t runs on hart t.
Tasks == {0, 1}
hart_id(t) == t

CREATE == 1
RELEASE == 2
GET_INFO == 4
LISTEN == 8
UNLISTEN == 16

SenderCtlAllBits == 7
ReceiverCtlAllBits == 31

\* A usize argument is the pair of its 32-bit halves: hi * 2^32 + lo.
usize(hi, lo) == [hi |-> hi, lo |-> lo]

SenderSlots == 0..UINTC_MAX_SENDER
ReceiverSlots == 0..UINTC_MAX_RECEIVER

VARIABLES
    SENDER_ID_ALLOCATOR,
    SENDER_UINTC_ID_ALLOCATOR,
    RECEIVER_ID_ALLOCATOR,
    RECEIVER_UINTC_ID_ALLOCATOR,
    UINTC_MAT_LOCK,
    sender_id_reg,
    sender_enable,
    sender_pending,
    receiver_id_reg,
    receiver_enable,
    receiver_pending,
    context,
    uipi_senders,
    uipi_receivers,
    listening_receiver_uintc_id,
    memory_set,
    call,
    recovery,
    panicked,
    ncalls,
    serial,
    LISTENING_RECEIVER_UINTC_ID,
    user_receivers,
    returned

pools == <<SENDER_ID_ALLOCATOR, SENDER_UINTC_ID_ALLOCATOR,
           RECEIVER_ID_ALLOCATOR, RECEIVER_UINTC_ID_ALLOCATOR>>
sender_mmio == <<sender_id_reg, sender_enable, sender_pending>>
receiver_mmio == <<receiver_id_reg, receiver_enable, receiver_pending>>
registries == <<uipi_senders, uipi_receivers, listening_receiver_uintc_id, memory_set>>
\* the user library of each process: its static, the Receiver values the
\* program holds, and what the last library call returned
library == <<LISTENING_RECEIVER_UINTC_ID, user_receivers, returned>>
vars == <<pools, UINTC_MAT_LOCK, sender_mmio, receiver_mmio, context,
          registries, call, recovery, panicked, ncalls, serial, library>>

\* Option<NonZeroU16> / Option<NonZeroU32>: None is the value 0
None == 0

(***************************************************************************)
(* bitflags                                                                *)
(***************************************************************************)
contains(flags, bit) == (flags \div bit) % 2 = 1

\* from_bits(flags).is_some(): no bit outside the declared flags is set
from_bits_ok(flags, all) == flags \div (all + 1) = 0

(***************************************************************************)
(* StackIntegerAllocator                                                   *)
(***************************************************************************)
StackIntegerAllocator_new(l, r) == [current |-> l, end |-> r, recycled |-> <<>>]

\* an alloc that takes the oldest recycled value
alloc_fifo(a) ==
    IF Len(a.recycled) > 0
    THEN [v |-> a.recycled[1], a |-> [a EXCEPT !.recycled = Tail(a.recycled)]]
    ELSE IF a.current = a.end
    THEN [v |-> None, a |-> a]
    ELSE [v |-> a.current, a |-> [a EXCEPT !.current = a.current + 1]]

\* an alloc that hands out current without advancing it
alloc_stale(a) ==
    IF Len(a.recycled) > 0
    THEN [v |-> a.recycled[Len(a.recycled)],
          a |-> [a EXCEPT !.recycled = SubSeq(a.recycled, 1, Len(a.recycled) - 1)]]
    ELSE IF a.current = a.end
    THEN [v |-> None, a |-> a]
    ELSE [v |-> a.current, a |-> a]

\* alloc: result.v is None (0) when the pool is exhausted; result.a the pool after
alloc(a) ==
    IF Len(a.recycled) > 0
    THEN [v |-> a.recycled[Len(a.recycled)],
          a |-> [a EXCEPT !.recycled = SubSeq(a.recycled, 1, Len(a.recycled) - 1)]]
    ELSE IF a.current = a.end
    THEN [v |-> None, a |-> a]
    ELSE [v |-> a.current, a |-> [a EXCEPT !.current = a.current + 1]]

\* the validity check of dealloc, compiled in with debug_assertions
dealloc_check_fails(a, i) ==
    i >= a.current \/ \E k \in 1..Len(a.recycled) : a.recycled[k] = i

\* a dealloc that pushes the value twice
dealloc_twice(a, i) == [a EXCEPT !.recycled = Append(Append(a.recycled, i), i)]

\* a dealloc that does not push the value
dealloc_lost(a, i) == a

dealloc(a, i) == [a EXCEPT !.recycled = Append(a.recycled, i)]

\* the build of the kernel
debug_assertions == TRUE

(***************************************************************************)
(* uintc_mat.rs: the matrix driver                                         *)
(***************************************************************************)
\* the word count rounded down
BitmapWords_floor == UINTC_MAX_RECEIVER \div 32

BitmapWords == (UINTC_MAX_RECEIVER + 31) \div 32

\* a drop that leaves the bitmap words as they are
zero_bitmap_kept(bits) == bits

\* write_volatile(addr + i * 4, 0) for i in 0..BitmapWords
zero_bitmap(bits) == {b \in bits : b >= 32 * BitmapWords}

id_or_zero(opt) == IF opt = None THEN 0 ELSE opt

\* The word set_connected reads and writes is at byte offset word_index of
\* the enable bitmap, and bit (r % 32) of it is bitmap position
\* 8 * word_index + r % 32.  When word_index is not a multiple of 4 the
\* pointer is misaligned, which read_volatile / write_volatile do not
\* allow: the access is then carried out byte by byte, or the device
\* ignores the low address bits, or the hart takes a misaligned-access
\* fault (the kernel panics in its trap handler).
set_connected_outcomes(receiver_uintc_id) ==
    LET word_index == receiver_uintc_id \div 32
        bit == receiver_uintc_id % 32
    IN  IF word_index % 4 = 0
        THEN {[fault |-> FALSE, pos |-> 8 * word_index + bit]}
        ELSE {[fault |-> FALSE, pos |-> 8 * word_index + bit],
              [fault |-> FALSE, pos |-> 8 * (4 * (word_index \div 4)) + bit],
              [fault |-> TRUE, pos |-> 0]}

\* a set_connected_write that ors the bit in whatever connect is
set_connected_write_or(bits, pos, connect) == bits \cup {pos}

\* if connect { word | bit } else { word & !bit }, written back
set_connected_write(bits, pos, connect) ==
    IF connect THEN bits \cup {pos} ELSE bits \ {pos}

(***************************************************************************)
(* Initial state: boot, no endpoint, the UINTC reset to 0                  *)
(***************************************************************************)
NoSnapshot == [senders |-> {}, receivers |-> {}, listening |-> None, system |-> <<>>]

\* A call record: pc is the next step of the call, id / uintc_id the
\* endpoint it acts on (for connection_ctl sender_uintc_id and uintc_id are
\* the two hardware indices), fail whether it returns -1 after dropping the
\* handle, ret / err / out the returned value, the cause of a failure and
\* the info written to the user buffer, pre the caller's registry at entry,
\* armed whether the call is a RELEASE that follows a failed CREATE, or the
\* CREATE that follows such a RELEASE; paired whether the call is the
\* disconnect the user library issues right after its connect (pre is then
\* the state before the connect); arg the id a call without CREATE was given,
\* None when it does not convert to a u32; locks the allocators whose mutex
\* the hart holds (1 to 4, in the order of pools).
Idle == [pc |-> "idle", op |-> "none", flags |-> 0, id |-> None, uintc_id |-> None,
         sender_uintc_id |-> None, fail |-> FALSE, armed |-> FALSE, paired |-> FALSE,
         arg |-> None, locks |-> {},
         connect |-> FALSE, addr |-> 0, word |-> {}, ret |-> 0, err |-> "none",
         out |-> <<>>, pre |-> NoSnapshot]

\* what a library call returned: the function, its value (0 for Ok, the
\* error otherwise), whether it issued a syscall, the static as the call
\* found it (for receive the receiver slot whose claim word it read) and
\* whether the page of that slot was mapped
NoResult == [fn |-> "none", ret |-> 0, syscall |-> FALSE, recorded |-> None, mapped |-> FALSE]

\* the library of a process that has just started
LibraryBoot ==
    /\ LISTENING_RECEIVER_UINTC_ID = [t \in Tasks |-> None]
    /\ user_receivers = [t \in Tasks |-> {}]
    /\ returned = [t \in Tasks |-> NoResult]

Boot ==
    /\ LibraryBoot
    /\ SENDER_ID_ALLOCATOR = StackIntegerAllocator_new(1, UINTC_MAX_SENDER)
    /\ SENDER_UINTC_ID_ALLOCATOR = StackIntegerAllocator_new(1, UINTC_MAX_SENDER)
    /\ RECEIVER_ID_ALLOCATOR = StackIntegerAllocator_new(1, UINTC_MAX_RECEIVER)
    /\ RECEIVER_UINTC_ID_ALLOCATOR = StackIntegerAllocator_new(1, UINTC_MAX_RECEIVER)
    /\ UINTC_MAT_LOCK = {}
    /\ sender_id_reg = [u \in SenderSlots |-> 0]
    /\ sender_enable = [u \in SenderSlots |-> {}]
    /\ sender_pending = [u \in SenderSlots |-> {}]
    /\ receiver_id_reg = [u \in ReceiverSlots |-> 0]
    /\ receiver_enable = [u \in ReceiverSlots |-> {}]
    /\ receiver_pending = [u \in ReceiverSlots |-> {}]
    /\ context = [h \in {hart_id(t) : t \in Tasks} |-> 0]
    /\ uipi_senders = [t \in Tasks |-> {}]
    /\ uipi_receivers = [t \in Tasks |-> {}]
    /\ listening_receiver_uintc_id = [t \in Tasks |-> None]
    /\ memory_set = [t \in Tasks |-> {}]
    /\ call = [t \in Tasks |-> Idle]
    /\ recovery = [k \in {"sender", "receiver"} |-> "none"]
    /\ panicked = FALSE
    /\ ncalls = 0

\* the harts run their calls concurrently
Init == Boot /\ serial = FALSE

\* the calls do not interleave: one is issued when the last has returned
InitSerial == Boot /\ serial = TRUE

(***************************************************************************)
(* The per-task registries: a mapping is the set of the infos              *)
(* {id, uintc_id} of its handles, keyed by id.                             *)
(***************************************************************************)
keys(map) == {e.id : e \in map}

\* a get that returns an entry of the mapping whatever its key
get_any(map, id) == CHOOSE e \in map : TRUE

get(map, id) == CHOOSE e \in map : e.id = id

\* an insert that does not store the entry
insert_dropped(map, info) == map

insert(map, info) == {e \in map : e.id # info.id} \cup {info}

\* a remove that leaves the entry in the mapping
remove_kept(map, id) == map

remove(map, id) == {e \in map : e.id # id}

\* find_sender_info / find_receiver_info: "none" when the id resolves
\* u32::try_from(usize), then NonZeroU32::try_from(u32); 0 when either fails
try_into_id(id_in) == IF id_in.hi # 0 THEN None ELSE id_in.lo

find_info_err(map, id_in) ==
    IF id_in.hi # 0 THEN "id"
    ELSE IF id_in.lo = 0 THEN "id"
    ELSE IF try_into_id(id_in) \notin keys(map) THEN "notfound"
    ELSE "none"

find_sender_info(t, sender_id) == get(uipi_senders[t], try_into_id(sender_id))

find_receiver_info(t, receiver_id) == get(uipi_receivers[t], try_into_id(receiver_id))

\* a task with no call in progress issues a syscall
Enter(t) ==
    /\ ~panicked
    /\ call[t].pc = "idle"
    /\ ncalls < (IF serial THEN MaxSerialCalls ELSE MaxCalls)
    /\ ncalls' = ncalls + 1
    /\ serial => \A u \in Tasks : call[u].pc = "idle"
    /\ UNCHANGED <<serial, library>>

\* the call of t is at step pc (a kernel that has panicked runs nothing)
At(t, pc) ==
    /\ ~panicked
    /\ call[t].pc = pc
    /\ UNCHANGED <<ncalls, serial, library>>

\* What a call can be compared with when it returns: the caller's registry,
\* which its task lock protects, and, when no other call runs meanwhile,
\* the pools, the UINTC and the registries of all tasks.
Snapshot(t) ==
    [senders |-> uipi_senders[t], receivers |-> uipi_receivers[t],
     listening |-> listening_receiver_uintc_id[t],
     system |-> IF serial
                THEN [pools |-> pools, sender_mmio |-> sender_mmio,
                      sender_enable |-> sender_enable,
                      receiver_mmio |-> receiver_mmio, context |-> context,
                      registries |-> registries]
                ELSE <<>>]

Done(c, ret, err) == [c EXCEPT !.pc = "done", !.ret = ret, !.err = err]

sender_addr_start(u) == <<"sender", u>>

receiver_addr_start(u) == <<"receiver", u>>

\* a CREATE of the kind is between its entry and its return
CreateInProgress(op) ==
    \E t \in Tasks : /\ call[t].op = op
                     /\ contains(call[t].flags, CREATE)
                     /\ call[t].pc \notin {"idle", "done"}

\* the entry of a CREATE by t: it is the CREATE that follows a RELEASE when
\* one has returned since the last CREATE of the kind started; a CREATE that
\* overlaps it is no longer the only one
EnterCreate(t, c, kind) ==
    /\ call' = [u \in Tasks |->
                  IF u = t THEN [c EXCEPT !.armed = (recovery[kind] = "released")]
                  ELSE IF call[u].op = c.op THEN [call[u] EXCEPT !.armed = FALSE]
                  ELSE call[u]]
    /\ recovery' = [recovery EXCEPT
                      ![kind] = IF @ = "released" THEN "exhausted" ELSE @]

\* a CREATE of the kind failed because a pool was exhausted
NoteExhausted(kind) ==
    recovery' = [recovery EXCEPT ![kind] = "exhausted"]

\* a RELEASE of the kind returned, one that was called after a CREATE had
\* failed on an exhausted pool
NoteReleased(t, kind) ==
    recovery' = [recovery EXCEPT
                   ![kind] = IF @ = "exhausted" /\ call[t].armed /\ ~call[t].fail
                                 /\ ~CreateInProgress(call[t].op)
                             THEN "released" ELSE @]

\* a MutexGuard that outlives its statement
guard_kept(c) == c

\* X_ALLOCATOR.lock().alloc() / .dealloc(v): the MutexGuard is a temporary,
\* dropped when the statement is done
guard_dropped(c) == [c EXCEPT !.locks = {}]

(***************************************************************************)
(* sender_ctl                                                              *)
(***************************************************************************)
\* every flag combination and one unknown bit when the calls are issued one
\* after another; the single flags when they run concurrently
SenderFlagInputs ==
    IF serial THEN 0..(SenderCtlAllBits + 1)
    ELSE {CREATE, RELEASE, SenderCtlAllBits + 1}

SenderIdInputs == {usize(0, lo) : lo \in 0..UINTC_MAX_SENDER} \cup {usize(1, 1)}

\* uipi_sender_ctl_impl from GET_INFO on, for the sender `info` found or
\* created; map and mem are the caller's uipi_senders and memory_set
sender_ctl_tail(t, c, map, mem, info, buf_ok) ==
    LET c1 == [c EXCEPT !.id = info.id, !.uintc_id = info.uintc_id]
        c2 == IF contains(c.flags, GET_INFO) THEN [c1 EXCEPT !.out = <<info>>] ELSE c1
    IN  IF contains(c.flags, GET_INFO) /\ ~buf_ok
        THEN /\ call' = [call EXCEPT ![t] = Done(c1, -1, "buf")]
             /\ uipi_senders' = [uipi_senders EXCEPT ![t] = map]
             /\ memory_set' = [memory_set EXCEPT ![t] = mem]
             /\ UNCHANGED panicked
        ELSE IF contains(c.flags, RELEASE)
        THEN /\ memory_set' = [memory_set EXCEPT
                                 ![t] = mem \ {sender_addr_start(info.uintc_id)}]
             /\ uipi_senders' = [uipi_senders EXCEPT ![t] = remove(map, info.id)]
             /\ panicked' = (info.id \notin keys(map))
             /\ call' = [call EXCEPT ![t] = [c2 EXCEPT !.pc = "s_drop_bitmaps"]]
        ELSE /\ call' = [call EXCEPT ![t] = Done(c2, info.id, "none")]
             /\ uipi_senders' = [uipi_senders EXCEPT ![t] = map]
             /\ memory_set' = [memory_set EXCEPT ![t] = mem]
             /\ UNCHANGED panicked

\* entry with an unknown flag bit
sender_ctl_bad_flags(t) ==
    /\ Enter(t)
    /\ \E flags \in SenderFlagInputs, sender_id \in SenderIdInputs :
        /\ ~from_bits_ok(flags, SenderCtlAllBits)
        /\ call' = [call EXCEPT ![t] =
                      Done([Idle EXCEPT !.op = "sender_ctl", !.flags = flags,
                                        !.pre = Snapshot(t)], -1, "flags")]
        /\ UNCHANGED <<pools, UINTC_MAT_LOCK, sender_mmio, receiver_mmio, context,
                       registries, recovery, panicked>>

\* entry with CREATE: the call goes on to SenderHandle::new
sender_ctl_create(t) ==
    /\ Enter(t)
    /\ \E flags \in SenderFlagInputs, sender_id \in SenderIdInputs :
        /\ from_bits_ok(flags, SenderCtlAllBits)
        /\ contains(flags, CREATE)
        /\ EnterCreate(t, [Idle EXCEPT !.op = "sender_ctl", !.flags = flags,
                                       !.pc = "s_alloc_id", !.pre = Snapshot(t)],
                       "sender")
        /\ UNCHANGED <<pools, UINTC_MAT_LOCK, sender_mmio, receiver_mmio, context,
                       registries, panicked>>

\* entry without CREATE: find_sender_info, then GET_INFO and RELEASE
sender_ctl_lookup(t) ==
    /\ Enter(t)
    /\ \E flags \in SenderFlagInputs, sender_id \in SenderIdInputs, buf_ok \in BOOLEAN :
        LET e == find_info_err(uipi_senders[t], sender_id)
            c == [Idle EXCEPT !.op = "sender_ctl", !.flags = flags, !.pre = Snapshot(t),
                              !.armed = contains(flags, RELEASE)
                                        /\ recovery["sender"] = "exhausted",
                              !.arg = try_into_id(sender_id)]
        IN  /\ from_bits_ok(flags, SenderCtlAllBits)
            /\ ~contains(flags, CREATE)
            /\ IF e # "none"
               THEN /\ call' = [call EXCEPT ![t] = Done(c, -1, e)]
                    /\ UNCHANGED <<uipi_senders, memory_set, panicked>>
               ELSE sender_ctl_tail(t, c, uipi_senders[t], memory_set[t],
                                    find_sender_info(t, sender_id), buf_ok)
            /\ UNCHANGED <<pools, UINTC_MAT_LOCK, sender_mmio, receiver_mmio, context,
                           uipi_receivers, listening_receiver_uintc_id, recovery>>

\* SenderId::alloc
SenderId_alloc(t) ==
    LET r == alloc(SENDER_ID_ALLOCATOR)
    IN  /\ At(t, "s_alloc_id")
        /\ SENDER_ID_ALLOCATOR' = r.a
        /\ IF r.v = None
           THEN /\ call' = [call EXCEPT ![t] = guard_dropped(Done(@, -1, "exhausted"))]
                /\ NoteExhausted("sender")
           ELSE /\ call' = [call EXCEPT ![t] =
                              guard_dropped([@ EXCEPT !.pc = "s_alloc_uintc", !.id = r.v])]
                /\ UNCHANGED recovery
        /\ UNCHANGED <<SENDER_UINTC_ID_ALLOCATOR, RECEIVER_ID_ALLOCATOR,
                       RECEIVER_UINTC_ID_ALLOCATOR, UINTC_MAT_LOCK, sender_mmio,
                       receiver_mmio, context, registries, panicked>>

\* SenderUintcId::alloc; on None the `?` returns from SenderHandle::new,
\* and the SenderId already obtained, a plain integer, is only forgotten
SenderUintcId_alloc(t) ==
    LET r == alloc(SENDER_UINTC_ID_ALLOCATOR)
    IN  /\ At(t, "s_alloc_uintc")
        /\ SENDER_UINTC_ID_ALLOCATOR' = r.a
        /\ IF r.v = None
           THEN /\ call' = [call EXCEPT ![t] = guard_dropped(Done(@, -1, "exhausted"))]
                /\ NoteExhausted("sender")
           ELSE /\ call' = [call EXCEPT ![t] =
                              guard_dropped([@ EXCEPT !.pc = "s_set_id", !.uintc_id = r.v])]
                /\ UNCHANGED recovery
        /\ UNCHANGED <<SENDER_ID_ALLOCATOR, RECEIVER_ID_ALLOCATOR,
                       RECEIVER_UINTC_ID_ALLOCATOR, UINTC_MAT_LOCK, sender_mmio,
                       receiver_mmio, context, registries, panicked>>

\* set_sender_id(uintc_id, Some(id)) under the matrix lock, then mmio_map
\* (which the address-space manager may refuse) and the insertion
set_sender_id(t) ==
    \E map_ok \in BOOLEAN, buf_ok \in BOOLEAN :
        LET c == call[t]
            info == [id |-> c.id, uintc_id |-> c.uintc_id]
        IN  /\ At(t, "s_set_id")
            /\ UINTC_MAT_LOCK = {}
            /\ sender_id_reg' = [sender_id_reg EXCEPT ![c.uintc_id] = id_or_zero(c.id)]
            /\ IF ~map_ok
               THEN /\ call' = [call EXCEPT ![t] = [c EXCEPT !.pc = "s_drop_bitmaps",
                                                             !.fail = TRUE, !.err = "map"]]
                    /\ UNCHANGED <<uipi_senders, memory_set, panicked>>
               ELSE IF c.id \in keys(uipi_senders[t])
               THEN /\ panicked' = TRUE
                    /\ UNCHANGED <<uipi_senders, memory_set, call>>
               ELSE sender_ctl_tail(t, c, insert(uipi_senders[t], info),
                                    memory_set[t] \cup {sender_addr_start(c.uintc_id)},
                                    info, buf_ok)
            /\ UNCHANGED <<pools, UINTC_MAT_LOCK, sender_enable, sender_pending,
                           receiver_mmio, context, uipi_receivers,
                           listening_receiver_uintc_id, recovery>>

\* drop_sender, the two loops: the matrix lock is taken, the enable words
\* and then the pending words zeroed
drop_sender_bitmaps(t) ==
    /\ At(t, "s_drop_bitmaps")
    /\ UINTC_MAT_LOCK = {}
    /\ UINTC_MAT_LOCK' = {t}
    /\ sender_enable' = [sender_enable EXCEPT ![call[t].uintc_id] = zero_bitmap(@)]
    /\ sender_pending' = [sender_pending EXCEPT ![call[t].uintc_id] = zero_bitmap(@)]
    /\ call' = [call EXCEPT ![t] = [@ EXCEPT !.pc = "s_drop_id"]]
    /\ UNCHANGED <<pools, sender_id_reg, receiver_mmio, context, registries, recovery, panicked>>

\* a drop_sender that clears the bound id and returns with the lock held
drop_sender_id_locked(t) ==
    /\ At(t, "s_drop_id")
    /\ sender_id_reg' = [sender_id_reg EXCEPT ![call[t].uintc_id] = id_or_zero(None)]
    /\ call' = [call EXCEPT ![t] = [@ EXCEPT !.pc = "s_dealloc_id"]]
    /\ UNCHANGED <<pools, UINTC_MAT_LOCK, sender_enable, sender_pending, receiver_mmio,
                   context, registries, recovery, panicked>>

\* a drop_sender that releases the lock without clearing the bound id
drop_sender_id_kept(t) ==
    /\ At(t, "s_drop_id")
    /\ UINTC_MAT_LOCK' = {}
    /\ call' = [call EXCEPT ![t] = [@ EXCEPT !.pc = "s_dealloc_id"]]
    /\ UNCHANGED <<pools, sender_mmio, receiver_mmio, context, registries, recovery,
                   panicked>>

\* drop_sender, end: set_sender_id_unlocked(uintc_id, None), lock released
drop_sender_id(t) ==
    /\ At(t, "s_drop_id")
    /\ sender_id_reg' = [sender_id_reg EXCEPT ![call[t].uintc_id] = id_or_zero(None)]
    /\ UINTC_MAT_LOCK' = {}
    /\ call' = [call EXCEPT ![t] = [@ EXCEPT !.pc = "s_dealloc_id"]]
    /\ UNCHANGED <<pools, sender_enable, sender_pending, receiver_mmio,
                   context, registries, recovery, panicked>>

\* Drop for SenderHandle: self.0.id.dealloc()
SenderId_dealloc(t) ==
    /\ At(t, "s_dealloc_id")
    /\ IF debug_assertions /\ dealloc_check_fails(SENDER_ID_ALLOCATOR, call[t].id)
       THEN panicked' = TRUE /\ UNCHANGED <<SENDER_ID_ALLOCATOR, call>>
       ELSE /\ SENDER_ID_ALLOCATOR' = dealloc(SENDER_ID_ALLOCATOR, call[t].id)
            /\ call' = [call EXCEPT ![t] =
                              guard_dropped([@ EXCEPT !.pc = "s_dealloc_uintc"])]
            /\ UNCHANGED panicked
    /\ UNCHANGED <<SENDER_UINTC_ID_ALLOCATOR, RECEIVER_ID_ALLOCATOR,
                   RECEIVER_UINTC_ID_ALLOCATOR, UINTC_MAT_LOCK, sender_mmio,
                   receiver_mmio, context, registries, recovery>>

\* Drop for SenderHandle: self.0.uintc_id.dealloc(); the call then returns
SenderUintcId_dealloc(t) ==
    /\ At(t, "s_dealloc_uintc")
    /\ IF debug_assertions /\ dealloc_check_fails(SENDER_UINTC_ID_ALLOCATOR, call[t].uintc_id)
       THEN panicked' = TRUE /\ UNCHANGED <<SENDER_UINTC_ID_ALLOCATOR, call, recovery>>
       ELSE /\ SENDER_UINTC_ID_ALLOCATOR' =
                   dealloc(SENDER_UINTC_ID_ALLOCATOR, call[t].uintc_id)
            /\ call' = [call EXCEPT ![t] =
                          guard_dropped(IF @.fail THEN Done(@, -1, @.err)
                                        ELSE Done(@, @.id, "none"))]
            /\ NoteReleased(t, "sender")
            /\ UNCHANGED panicked
    /\ UNCHANGED <<SENDER_ID_ALLOCATOR, RECEIVER_ID_ALLOCATOR,
                   RECEIVER_UINTC_ID_ALLOCATOR, UINTC_MAT_LOCK, sender_mmio,
                   receiver_mmio, context, registries>>

(***************************************************************************)
(* receiver_ctl                                                            *)
(***************************************************************************)
ReceiverFlagInputs ==
    IF serial THEN 0..(ReceiverCtlAllBits + 1)
    ELSE {CREATE, RELEASE, LISTEN, UNLISTEN, ReceiverCtlAllBits + 1}

ReceiverIdInputs == {usize(0, lo) : lo \in 0..UINTC_MAX_RECEIVER} \cup {usize(1, 1)}

\* the steps with UNLISTEN tested before LISTEN
receiver_ctl_next_swapped(flags, stage) ==
    IF stage = 0 /\ contains(flags, UNLISTEN) THEN "r_unlisten"
    ELSE IF stage \in {0, 2} /\ contains(flags, LISTEN) THEN "r_listen"
    ELSE IF contains(flags, RELEASE) THEN "r_release"
    ELSE "done"

\* the step of uipi_receiver_ctl_impl that follows GET_INFO (stage 0),
\* LISTEN (stage 1) or UNLISTEN (stage 2)
receiver_ctl_next(flags, stage) ==
    IF stage < 1 /\ contains(flags, LISTEN) THEN "r_listen"
    ELSE IF stage < 2 /\ contains(flags, UNLISTEN) THEN "r_unlisten"
    ELSE IF contains(flags, RELEASE) THEN "r_release"
    ELSE "done"

Continue(c, pc) == IF pc = "done" THEN Done(c, c.id, "none") ELSE [c EXCEPT !.pc = pc]

\* uipi_receiver_ctl_impl at GET_INFO, for the receiver `info` found or created
receiver_ctl_tail(t, c, info, buf_ok) ==
    LET c1 == [c EXCEPT !.id = info.id, !.uintc_id = info.uintc_id]
        c2 == IF contains(c.flags, GET_INFO) THEN [c1 EXCEPT !.out = <<info>>] ELSE c1
    IN  IF contains(c.flags, GET_INFO) /\ ~buf_ok
        THEN call' = [call EXCEPT ![t] = Done(c1, -1, "buf")]
        ELSE call' = [call EXCEPT ![t] = Continue(c2, receiver_ctl_next(c.flags, 0))]

\* entry with an unknown flag bit
receiver_ctl_bad_flags(t) ==
    /\ Enter(t)
    /\ \E flags \in ReceiverFlagInputs, receiver_id \in ReceiverIdInputs :
        /\ ~from_bits_ok(flags, ReceiverCtlAllBits)
        /\ call' = [call EXCEPT ![t] =
                      Done([Idle EXCEPT !.op = "receiver_ctl", !.flags = flags,
                                        !.pre = Snapshot(t)], -1, "flags")]
        /\ UNCHANGED <<pools, UINTC_MAT_LOCK, sender_mmio, receiver_mmio, context,
                       registries, recovery, panicked>>

\* entry with flags == UNLISTEN: receiver_id is not looked at
receiver_ctl_unlisten_only(t) ==
    /\ Enter(t)
    /\ \E receiver_id \in ReceiverIdInputs :
        /\ call' = [call EXCEPT ![t] =
                      [Idle EXCEPT !.op = "receiver_ctl", !.flags = UNLISTEN,
                                   !.pc = "r_unlisten", !.pre = Snapshot(t)]]
        /\ UNCHANGED <<pools, UINTC_MAT_LOCK, sender_mmio, receiver_mmio, context,
                       registries, recovery, panicked>>

\* entry with CREATE: the call goes on to ReceiverHandle::new
receiver_ctl_create(t) ==
    /\ Enter(t)
    /\ \E flags \in ReceiverFlagInputs, receiver_id \in ReceiverIdInputs :
        /\ from_bits_ok(flags, ReceiverCtlAllBits)
        /\ flags # UNLISTEN
        /\ contains(flags, CREATE)
        /\ EnterCreate(t, [Idle EXCEPT !.op = "receiver_ctl", !.flags = flags,
                                       !.pc = "r_alloc_id", !.pre = Snapshot(t)],
                       "receiver")
        /\ UNCHANGED <<pools, UINTC_MAT_LOCK, sender_mmio, receiver_mmio, context,
                       registries, panicked>>

\* entry without CREATE: find_receiver_info, then GET_INFO
receiver_ctl_lookup(t) ==
    /\ Enter(t)
    /\ \E flags \in ReceiverFlagInputs, receiver_id \in ReceiverIdInputs, buf_ok \in BOOLEAN :
        LET e == find_info_err(uipi_receivers[t], receiver_id)
            c == [Idle EXCEPT !.op = "receiver_ctl", !.flags = flags, !.pre = Snapshot(t),
                              !.armed = contains(flags, RELEASE)
                                        /\ recovery["receiver"] = "exhausted",
                              !.arg = try_into_id(receiver_id)]
        IN  /\ from_bits_ok(flags, ReceiverCtlAllBits)
            /\ flags # UNLISTEN
            /\ ~contains(flags, CREATE)
            /\ IF e # "none"
               THEN call' = [call EXCEPT ![t] = Done(c, -1, e)]
               ELSE receiver_ctl_tail(t, c, find_receiver_info(t, receiver_id), buf_ok)
            /\ UNCHANGED <<pools, UINTC_MAT_LOCK, sender_mmio, receiver_mmio, context,
                           registries, recovery, panicked>>

\* ReceiverId::alloc
ReceiverId_alloc(t) ==
    LET r == alloc(RECEIVER_ID_ALLOCATOR)
    IN  /\ At(t, "r_alloc_id")
        /\ RECEIVER_ID_ALLOCATOR' = r.a
        /\ IF r.v = None
           THEN /\ call' = [call EXCEPT ![t] = guard_dropped(Done(@, -1, "exhausted"))]
                /\ NoteExhausted("receiver")
           ELSE /\ call' = [call EXCEPT ![t] =
                              guard_dropped([@ EXCEPT !.pc = "r_alloc_uintc", !.id = r.v])]
                /\ UNCHANGED recovery
        /\ UNCHANGED <<SENDER_ID_ALLOCATOR, SENDER_UINTC_ID_ALLOCATOR,
                       RECEIVER_UINTC_ID_ALLOCATOR, UINTC_MAT_LOCK, sender_mmio,
                       receiver_mmio, context, registries, panicked>>

\* ReceiverUintcId::alloc; on None the ReceiverId already obtained is forgotten
ReceiverUintcId_alloc(t) ==
    LET r == alloc(RECEIVER_UINTC_ID_ALLOCATOR)
    IN  /\ At(t, "r_alloc_uintc")
        /\ RECEIVER_UINTC_ID_ALLOCATOR' = r.a
        /\ IF r.v = None
           THEN /\ call' = [call EXCEPT ![t] = guard_dropped(Done(@, -1, "exhausted"))]
                /\ NoteExhausted("receiver")
           ELSE /\ call' = [call EXCEPT ![t] =
                              guard_dropped([@ EXCEPT !.pc = "r_set_id", !.uintc_id = r.v])]
                /\ UNCHANGED recovery
        /\ UNCHANGED <<SENDER_ID_ALLOCATOR, SENDER_UINTC_ID_ALLOCATOR,
                       RECEIVER_ID_ALLOCATOR, UINTC_MAT_LOCK, sender_mmio,
                       receiver_mmio, context, registries, panicked>>

\* set_receiver_id(uintc_id, Some(id)) under the matrix lock, then mmio_map
\* and the insertion
set_receiver_id(t) ==
    \E map_ok \in BOOLEAN, buf_ok \in BOOLEAN :
        LET c == call[t]
            info == [id |-> c.id, uintc_id |-> c.uintc_id]
        IN  /\ At(t, "r_set_id")
            /\ UINTC_MAT_LOCK = {}
            /\ receiver_id_reg' = [receiver_id_reg EXCEPT ![c.uintc_id] = id_or_zero(c.id)]
            /\ IF ~map_ok
               THEN /\ call' = [call EXCEPT ![t] = [c EXCEPT !.pc = "r_drop_bitmaps",
                                                             !.fail = TRUE, !.err = "map"]]
                    /\ UNCHANGED <<uipi_receivers, memory_set, panicked>>
               ELSE IF c.id \in keys(uipi_receivers[t])
               THEN /\ panicked' = TRUE
                    /\ UNCHANGED <<uipi_receivers, memory_set, call>>
               ELSE /\ uipi_receivers' = [uipi_receivers EXCEPT ![t] = insert(@, info)]
                    /\ memory_set' = [memory_set EXCEPT
                                        ![t] = @ \cup {receiver_addr_start(c.uintc_id)}]
                    /\ receiver_ctl_tail(t, c, info, buf_ok)
                    /\ UNCHANGED panicked
            /\ UNCHANGED <<pools, UINTC_MAT_LOCK, receiver_enable, receiver_pending,
                           sender_mmio, context, uipi_senders,
                           listening_receiver_uintc_id, recovery>>

\* a LISTEN that leaves a listening task as it is
receiver_ctl_listen_once(t) ==
    /\ At(t, "r_listen")
    /\ UINTC_MAT_LOCK = {}
    /\ context' = IF listening_receiver_uintc_id[t] = None
                  THEN [context EXCEPT ![hart_id(t)] = id_or_zero(call[t].uintc_id)]
                  ELSE context
    /\ listening_receiver_uintc_id' =
           IF listening_receiver_uintc_id[t] = None
           THEN [listening_receiver_uintc_id EXCEPT ![t] = call[t].uintc_id]
           ELSE listening_receiver_uintc_id
    /\ call' = [call EXCEPT ![t] = Continue(@, receiver_ctl_next(@.flags, 1))]
    /\ UNCHANGED <<pools, UINTC_MAT_LOCK, sender_mmio, receiver_mmio,
                   uipi_senders, uipi_receivers, memory_set, recovery, panicked>>

\* LISTEN: set_listening_receiver_id(hart_id(), Some(uintc_id)), then the field
receiver_ctl_listen(t) ==
    /\ At(t, "r_listen")
    /\ UINTC_MAT_LOCK = {}
    /\ context' = [context EXCEPT ![hart_id(t)] = id_or_zero(call[t].uintc_id)]
    /\ listening_receiver_uintc_id' =
           [listening_receiver_uintc_id EXCEPT ![t] = call[t].uintc_id]
    /\ call' = [call EXCEPT ![t] = Continue(@, receiver_ctl_next(@.flags, 1))]
    /\ UNCHANGED <<pools, UINTC_MAT_LOCK, sender_mmio, receiver_mmio,
                   uipi_senders, uipi_receivers, memory_set, recovery, panicked>>

\* an unlisten that clears the field and leaves the hart register
unlisten_field_only(t) ==
    /\ At(t, "r_unlisten")
    /\ listening_receiver_uintc_id' = [listening_receiver_uintc_id EXCEPT ![t] = None]
    /\ call' = [call EXCEPT ![t] = Continue(@, receiver_ctl_next(@.flags, 2))]
    /\ UNCHANGED <<pools, UINTC_MAT_LOCK, sender_mmio, receiver_mmio, context,
                   uipi_senders, uipi_receivers, memory_set, recovery, panicked>>

\* unlisten: the field is cleared, then set_listening_receiver_id(hart_id(), None)
unlisten(t) ==
    /\ At(t, "r_unlisten")
    /\ UINTC_MAT_LOCK = {}
    /\ listening_receiver_uintc_id' = [listening_receiver_uintc_id EXCEPT ![t] = None]
    /\ context' = [context EXCEPT ![hart_id(t)] = id_or_zero(None)]
    /\ call' = [call EXCEPT ![t] = Continue(@, receiver_ctl_next(@.flags, 2))]
    /\ UNCHANGED <<pools, UINTC_MAT_LOCK, sender_mmio, receiver_mmio,
                   uipi_senders, uipi_receivers, memory_set, recovery, panicked>>

\* RELEASE: the hart register is cleared when the task listens on this
\* receiver, the page unmapped and the entry removed
receiver_ctl_release(t) ==
    LET c == call[t]
        is_listening == listening_receiver_uintc_id[t] = c.uintc_id
    IN  /\ At(t, "r_release")
        /\ is_listening => UINTC_MAT_LOCK = {}
        /\ context' = IF is_listening
                      THEN [context EXCEPT ![hart_id(t)] = id_or_zero(None)]
                      ELSE context
        /\ memory_set' = [memory_set EXCEPT ![t] = @ \ {receiver_addr_start(c.uintc_id)}]
        /\ uipi_receivers' = [uipi_receivers EXCEPT ![t] = remove(@, c.id)]
        /\ panicked' = (c.id \notin keys(uipi_receivers[t]))
        /\ call' = [call EXCEPT ![t] = [c EXCEPT !.pc = "r_drop_bitmaps"]]
        /\ UNCHANGED <<pools, UINTC_MAT_LOCK, sender_mmio, receiver_mmio,
                       uipi_senders, listening_receiver_uintc_id, recovery>>

\* drop_receiver, the two loops: the matrix lock is taken, the enable words
\* and then the pending words zeroed
drop_receiver_bitmaps(t) ==
    /\ At(t, "r_drop_bitmaps")
    /\ UINTC_MAT_LOCK = {}
    /\ UINTC_MAT_LOCK' = {t}
    /\ receiver_enable' = [receiver_enable EXCEPT ![call[t].uintc_id] = zero_bitmap(@)]
    /\ receiver_pending' = [receiver_pending EXCEPT ![call[t].uintc_id] = zero_bitmap(@)]
    /\ call' = [call EXCEPT ![t] = [@ EXCEPT !.pc = "r_drop_id"]]
    /\ UNCHANGED <<pools, receiver_id_reg, sender_mmio, context, registries, recovery, panicked>>

\* a drop_receiver that releases the lock without clearing the bound id
drop_receiver_id_kept(t) ==
    /\ At(t, "r_drop_id")
    /\ UINTC_MAT_LOCK' = {}
    /\ call' = [call EXCEPT ![t] = [@ EXCEPT !.pc = "r_dealloc_id"]]
    /\ UNCHANGED <<pools, receiver_mmio, sender_mmio, context, registries, recovery,
                   panicked>>

\* drop_receiver, end: set_receiver_id_unlocked(uintc_id, None), lock released
drop_receiver_id(t) ==
    /\ At(t, "r_drop_id")
    /\ receiver_id_reg' = [receiver_id_reg EXCEPT ![call[t].uintc_id] = id_or_zero(None)]
    /\ UINTC_MAT_LOCK' = {}
    /\ call' = [call EXCEPT ![t] = [@ EXCEPT !.pc = "r_dealloc_id"]]
    /\ UNCHANGED <<pools, receiver_enable, receiver_pending, sender_mmio,
                   context, registries, recovery, panicked>>

\* Drop for ReceiverHandle: self.0.id.dealloc()
ReceiverId_dealloc(t) ==
    /\ At(t, "r_dealloc_id")
    /\ IF debug_assertions /\ dealloc_check_fails(RECEIVER_ID_ALLOCATOR, call[t].id)
       THEN panicked' = TRUE /\ UNCHANGED <<RECEIVER_ID_ALLOCATOR, call>>
       ELSE /\ RECEIVER_ID_ALLOCATOR' = dealloc(RECEIVER_ID_ALLOCATOR, call[t].id)
            /\ call' = [call EXCEPT ![t] =
                              guard_dropped([@ EXCEPT !.pc = "r_dealloc_uintc"])]
            /\ UNCHANGED panicked
    /\ UNCHANGED <<SENDER_ID_ALLOCATOR, SENDER_UINTC_ID_ALLOCATOR,
                   RECEIVER_UINTC_ID_ALLOCATOR, UINTC_MAT_LOCK, sender_mmio,
                   receiver_mmio, context, registries, recovery>>

\* Drop for ReceiverHandle: self.0.uintc_id.dealloc(); the call then returns
ReceiverUintcId_dealloc(t) ==
    /\ At(t, "r_dealloc_uintc")
    /\ IF debug_assertions
          /\ dealloc_check_fails(RECEIVER_UINTC_ID_ALLOCATOR, call[t].uintc_id)
       THEN panicked' = TRUE /\ UNCHANGED <<RECEIVER_UINTC_ID_ALLOCATOR, call, recovery>>
       ELSE /\ RECEIVER_UINTC_ID_ALLOCATOR' =
                   dealloc(RECEIVER_UINTC_ID_ALLOCATOR, call[t].uintc_id)
            /\ call' = [call EXCEPT ![t] =
                          guard_dropped(IF @.fail THEN Done(@, -1, @.err)
                                        ELSE Done(@, @.id, "none"))]
            /\ NoteReleased(t, "receiver")
            /\ UNCHANGED panicked
    /\ UNCHANGED <<SENDER_ID_ALLOCATOR, SENDER_UINTC_ID_ALLOCATOR,
                   RECEIVER_ID_ALLOCATOR, UINTC_MAT_LOCK, sender_mmio,
                   receiver_mmio, context, registries>>

(***************************************************************************)
(* connection_ctl                                                          *)
(***************************************************************************)
\* the positions of the u32 at bitmap position addr
word_at(addr) == addr..(addr + 31)

\* a connection_ctl that resolves the ids in the mappings of all processes
connection_ctl_any(t) ==
    /\ Enter(t)
    /\ \E sender_id \in SenderIdInputs, receiver_id \in ReceiverIdInputs,
       connected \in BOOLEAN :
        LET c == [Idle EXCEPT !.op = "connection_ctl", !.pre = Snapshot(t),
                              !.connect = connected]
            senders == UNION {uipi_senders[u] : u \in Tasks}
            receivers == UNION {uipi_receivers[u] : u \in Tasks}
            es == find_info_err(senders, sender_id)
            er == find_info_err(receivers, receiver_id)
        IN  /\ call' = [call EXCEPT ![t] =
                          IF es # "none" THEN Done(c, -1, es)
                          ELSE IF er # "none" THEN Done(c, -1, er)
                          ELSE [c EXCEPT !.pc = "c_read",
                                         !.sender_uintc_id =
                                             get(senders, try_into_id(sender_id)).uintc_id,
                                         !.uintc_id =
                                             get(receivers, try_into_id(receiver_id)).uintc_id]]
            /\ UNCHANGED <<pools, UINTC_MAT_LOCK, sender_mmio, receiver_mmio, context,
                           registries, recovery, panicked>>

\* entry: both ids are resolved in the caller's mappings
connection_ctl(t) ==
    /\ Enter(t)
    /\ \E sender_id \in SenderIdInputs, receiver_id \in ReceiverIdInputs,
       connected \in BOOLEAN :
        LET c == [Idle EXCEPT !.op = "connection_ctl", !.pre = Snapshot(t),
                              !.connect = connected]
            es == find_info_err(uipi_senders[t], sender_id)
            er == find_info_err(uipi_receivers[t], receiver_id)
        IN  /\ call' = [call EXCEPT ![t] =
                          IF es # "none" THEN Done(c, -1, es)
                          ELSE IF er # "none" THEN Done(c, -1, er)
                          ELSE [c EXCEPT !.pc = "c_read",
                                         !.sender_uintc_id =
                                             find_sender_info(t, sender_id).uintc_id,
                                         !.uintc_id =
                                             find_receiver_info(t, receiver_id).uintc_id]]
            /\ UNCHANGED <<pools, UINTC_MAT_LOCK, sender_mmio, receiver_mmio, context,
                           registries, recovery, panicked>>

\* a set_connected that reads the word without taking the matrix lock
set_connected_read_unlocked(t) ==
    \E o \in set_connected_outcomes(call[t].uintc_id) :
        LET c == call[t]
            addr == o.pos - (c.uintc_id % 32)
        IN  /\ At(t, "c_read")
            /\ IF o.fault
               THEN panicked' = TRUE /\ UNCHANGED call
               ELSE /\ call' = [call EXCEPT ![t] =
                                  [c EXCEPT !.pc = "c_write", !.addr = addr,
                                            !.word = sender_enable[c.sender_uintc_id]
                                                     \cap word_at(addr)]]
                    /\ UNCHANGED panicked
            /\ UNCHANGED <<pools, UINTC_MAT_LOCK, sender_mmio, receiver_mmio, context,
                           registries, recovery>>

\* set_connected: the matrix lock is taken and the word read
set_connected_read(t) ==
    \E o \in set_connected_outcomes(call[t].uintc_id) :
        LET c == call[t]
            addr == o.pos - (c.uintc_id % 32)
        IN  /\ At(t, "c_read")
            /\ UINTC_MAT_LOCK = {}
            /\ UINTC_MAT_LOCK' = {t}
            /\ IF o.fault
               THEN panicked' = TRUE /\ UNCHANGED call
               ELSE /\ call' = [call EXCEPT ![t] =
                                  [c EXCEPT !.pc = "c_write", !.addr = addr,
                                            !.word = sender_enable[c.sender_uintc_id]
                                                     \cap word_at(addr)]]
                    /\ UNCHANGED panicked
            /\ UNCHANGED <<pools, sender_mmio, receiver_mmio, context, registries,
                           recovery>>

\* set_connected: the word written back with the bit set or cleared, the
\* lock released; connection_ctl returns 0
set_connected_write_back(t) ==
    LET c == call[t] IN
    /\ At(t, "c_write")
    /\ sender_enable' = [sender_enable EXCEPT
                           ![c.sender_uintc_id] = (@ \ word_at(c.addr))
                                     \cup set_connected_write(
                                              c.word, c.addr + (c.uintc_id % 32), c.connect)]
    /\ UINTC_MAT_LOCK' = {}
    /\ call' = [call EXCEPT ![t] = Done(c, 0, "none")]
    /\ UNCHANGED <<pools, sender_id_reg, sender_pending, receiver_mmio, context,
                   registries, recovery, panicked>>

\* the syscall has returned to user mode; the task may issue another
Return(t) ==
    /\ At(t, "done")
    /\ call[t].op # "teardown"
    /\ call' = [call EXCEPT ![t] = Idle]
    /\ UNCHANGED <<pools, UINTC_MAT_LOCK, sender_mmio, receiver_mmio, context,
                   registries, recovery, panicked>>

Next ==
    \/ \E t \in Tasks : sender_ctl_bad_flags(t)
    \/ \E t \in Tasks : sender_ctl_create(t)
    \/ \E t \in Tasks : sender_ctl_lookup(t)
    \/ \E t \in Tasks : SenderId_alloc(t)
    \/ \E t \in Tasks : SenderUintcId_alloc(t)
    \/ \E t \in Tasks : set_sender_id(t)
    \/ \E t \in Tasks : drop_sender_bitmaps(t)
    \/ \E t \in Tasks : drop_sender_id(t)
    \/ \E t \in Tasks : SenderId_dealloc(t)
    \/ \E t \in Tasks : SenderUintcId_dealloc(t)
    \/ \E t \in Tasks : receiver_ctl_bad_flags(t)
    \/ \E t \in Tasks : receiver_ctl_unlisten_only(t)
    \/ \E t \in Tasks : receiver_ctl_create(t)
    \/ \E t \in Tasks : receiver_ctl_lookup(t)
    \/ \E t \in Tasks : ReceiverId_alloc(t)
    \/ \E t \in Tasks : ReceiverUintcId_alloc(t)
    \/ \E t \in Tasks : set_receiver_id(t)
    \/ \E t \in Tasks : receiver_ctl_listen(t)
    \/ \E t \in Tasks : unlisten(t)
    \/ \E t \in Tasks : receiver_ctl_release(t)
    \/ \E t \in Tasks : drop_receiver_bitmaps(t)
    \/ \E t \in Tasks : drop_receiver_id(t)
    \/ \E t \in Tasks : ReceiverId_dealloc(t)
    \/ \E t \in Tasks : ReceiverUintcId_dealloc(t)
    \/ \E t \in Tasks : connection_ctl(t)
    \/ \E t \in Tasks : set_connected_read(t)
    \/ \E t \in Tasks : set_connected_write_back(t)
    \/ \E t \in Tasks : Return(t)

Spec == Init /\ [][Next]_vars

SpecSerial == InitSerial /\ [][Next]_vars

(***************************************************************************)
(* The mutexes.  Each allocator is a spin::Mutex<StackIntegerAllocator>:   *)
(* a hart that calls X_ALLOCATOR.lock() spins until the mutex is free.     *)
(* Here taking the mutex is a step of its own, so that the calls of the    *)
(* harts interleave between the lock and the alloc or dealloc under it.    *)
(* The matrix mutex is the variable UINTC_MAT_LOCK; the inner lock of a    *)
(* task is held from acquire_inner_lock() to the return of the call.       *)
(***************************************************************************)
\* the number of syscalls the tasks issue in a run that follows the mutexes
MaxLockCalls == 3

\* the allocator (1 to 4, in the order of pools) that the step at pc locks
PoolOfStep(pc) ==
    CASE pc \in {"s_alloc_id", "s_dealloc_id"} -> 1
      [] pc \in {"s_alloc_uintc", "s_dealloc_uintc"} -> 2
      [] pc \in {"r_alloc_id", "r_dealloc_id"} -> 3
      [] pc \in {"r_alloc_uintc", "r_dealloc_uintc"} -> 4
      [] OTHER -> 0

\* X_ALLOCATOR.lock() returns: the mutex was free (a hart that holds it
\* already spins for ever, like any other)
Allocator_lock(t) ==
    LET k == PoolOfStep(call[t].pc) IN
    /\ At(t, call[t].pc)
    /\ k # 0
    /\ \A u \in Tasks : k \notin call[u].locks
    /\ call' = [call EXCEPT ![t].locks = @ \cup {k}]
    /\ UNCHANGED <<pools, UINTC_MAT_LOCK, sender_mmio, receiver_mmio, context,
                   registries, recovery, panicked>>

\* the hart of t holds the mutex of the allocator its next step works on
Locked(t) == PoolOfStep(call[t].pc) \in call[t].locks

\* boot, with MaxLockCalls syscalls to come
InitLocks ==
    /\ LibraryBoot
    /\ SENDER_ID_ALLOCATOR = StackIntegerAllocator_new(1, UINTC_MAX_SENDER)
    /\ SENDER_UINTC_ID_ALLOCATOR = StackIntegerAllocator_new(1, UINTC_MAX_SENDER)
    /\ RECEIVER_ID_ALLOCATOR = StackIntegerAllocator_new(1, UINTC_MAX_RECEIVER)
    /\ RECEIVER_UINTC_ID_ALLOCATOR = StackIntegerAllocator_new(1, UINTC_MAX_RECEIVER)
    /\ UINTC_MAT_LOCK = {}
    /\ sender_id_reg = [u \in SenderSlots |-> 0]
    /\ sender_enable = [u \in SenderSlots |-> {}]
    /\ sender_pending = [u \in SenderSlots |-> {}]
    /\ receiver_id_reg = [u \in ReceiverSlots |-> 0]
    /\ receiver_enable = [u \in ReceiverSlots |-> {}]
    /\ receiver_pending = [u \in ReceiverSlots |-> {}]
    /\ context = [h \in {hart_id(t) : t \in Tasks} |-> 0]
    /\ uipi_senders = [t \in Tasks |-> {}]
    /\ uipi_receivers = [t \in Tasks |-> {}]
    /\ listening_receiver_uintc_id = [t \in Tasks |-> None]
    /\ memory_set = [t \in Tasks |-> {}]
    /\ call = [t \in Tasks |-> Idle]
    /\ recovery = [k \in {"sender", "receiver"} |-> "none"]
    /\ panicked = FALSE
    /\ ncalls = MaxCalls - MaxLockCalls
    /\ serial = FALSE

\* the steps of the call of t that is in progress
HartStep(t) ==
    \/ Allocator_lock(t)
    \/ Locked(t) /\ SenderId_alloc(t)
    \/ Locked(t) /\ SenderUintcId_alloc(t)
    \/ set_sender_id(t)
    \/ drop_sender_bitmaps(t)
    \/ drop_sender_id(t)
    \/ Locked(t) /\ SenderId_dealloc(t)
    \/ Locked(t) /\ SenderUintcId_dealloc(t)
    \/ Locked(t) /\ ReceiverId_alloc(t)
    \/ Locked(t) /\ ReceiverUintcId_alloc(t)
    \/ set_receiver_id(t)
    \/ receiver_ctl_listen(t)
    \/ unlisten(t)
    \/ receiver_ctl_release(t)
    \/ drop_receiver_bitmaps(t)
    \/ drop_receiver_id(t)
    \/ Locked(t) /\ ReceiverId_dealloc(t)
    \/ Locked(t) /\ ReceiverUintcId_dealloc(t)
    \/ set_connected_read(t)
    \/ set_connected_write_back(t)

\* a syscall is issued, or the one that has returned is left behind
UserStep(t) ==
    \/ sender_ctl_bad_flags(t)
    \/ sender_ctl_create(t)
    \/ sender_ctl_lookup(t)
    \/ receiver_ctl_bad_flags(t)
    \/ receiver_ctl_unlisten_only(t)
    \/ receiver_ctl_create(t)
    \/ receiver_ctl_lookup(t)
    \/ connection_ctl(t)
    \/ Return(t)

NextLocks ==
    \/ \E t \in Tasks : HartStep(t)
    \/ \E t \in Tasks : UserStep(t)

SpecLocks == InitLocks /\ [][NextLocks]_vars

\* a hart that can take a step of its call does so: the kernel does not
\* yield inside a control-plane call
SpecLocksFair == SpecLocks /\ \A t \in Tasks : WF_vars(HartStep(t))

(***************************************************************************)
(* set_connected on its own: the arguments and the enable bitmap it works  *)
(* on are drawn, and the function applied once.                            *)
(***************************************************************************)
\* the largest receiver hardware index drawn
MaxReceiverIndex == 40

InitialBitmaps(r) == {{}, {r}, 0..(MaxReceiverIndex + 8)}

InitSetConnected ==
    /\ LibraryBoot
    /\ SENDER_ID_ALLOCATOR = StackIntegerAllocator_new(1, UINTC_MAX_SENDER)
    /\ SENDER_UINTC_ID_ALLOCATOR = StackIntegerAllocator_new(1, UINTC_MAX_SENDER)
    /\ RECEIVER_ID_ALLOCATOR = StackIntegerAllocator_new(1, UINTC_MAX_RECEIVER)
    /\ RECEIVER_UINTC_ID_ALLOCATOR = StackIntegerAllocator_new(1, UINTC_MAX_RECEIVER)
    /\ UINTC_MAT_LOCK = {}
    /\ sender_id_reg = [u \in SenderSlots |-> 0]
    /\ sender_pending = [u \in SenderSlots |-> {}]
    /\ receiver_id_reg = [u \in ReceiverSlots |-> 0]
    /\ receiver_enable = [u \in ReceiverSlots |-> {}]
    /\ receiver_pending = [u \in ReceiverSlots |-> {}]
    /\ context = [h \in {hart_id(t) : t \in Tasks} |-> 0]
    /\ uipi_senders = [t \in Tasks |-> {}]
    /\ uipi_receivers = [t \in Tasks |-> {}]
    /\ listening_receiver_uintc_id = [t \in Tasks |-> None]
    /\ memory_set = [t \in Tasks |-> {}]
    /\ recovery = [k \in {"sender", "receiver"} |-> "none"]
    /\ panicked = FALSE
    /\ ncalls = 1
    /\ serial = TRUE
    /\ \E s \in 1..(UINTC_MAX_SENDER - 1), r \in 1..MaxReceiverIndex, connect \in BOOLEAN :
       \E bits \in InitialBitmaps(r) :
          /\ sender_enable = [u \in SenderSlots |-> IF u = s THEN bits ELSE {}]
          /\ call = [t \in Tasks |->
                       IF t = 0
                       THEN [Idle EXCEPT !.op = "connection_ctl", !.pc = "c_read",
                                         !.sender_uintc_id = s, !.uintc_id = r,
                                         !.connect = connect, !.pre = Snapshot(t)]
                       ELSE Idle]

NextSetConnected ==
    \/ \E t \in Tasks : set_connected_read(t)
    \/ \E t \in Tasks : set_connected_write_back(t)

SpecSetConnected == InitSetConnected /\ [][NextSetConnected]_vars

(***************************************************************************)
(* The user library: sender.connect(r) followed by sender.disconnect(r)    *)
(***************************************************************************)
\* Sender::disconnect on the endpoints of the connect that has just
\* returned: sys_uipi_connection_ctl(id, receiver.id, false)
Sender_disconnect(t) ==
    /\ At(t, "done")
    /\ call[t].op = "connection_ctl"
    /\ call[t].connect
    /\ call[t].ret = 0
    /\ call' = [call EXCEPT ![t] = [@ EXCEPT !.pc = "c_read", !.connect = FALSE,
                                              !.paired = TRUE, !.addr = 0, !.word = {}]]
    /\ UNCHANGED <<pools, UINTC_MAT_LOCK, sender_mmio, receiver_mmio, context,
                   registries, recovery, panicked>>

NextConnectDisconnect ==
    \/ \E t \in Tasks : set_connected_read(t)
    \/ \E t \in Tasks : set_connected_write_back(t)
    \/ \E t \in Tasks : Sender_disconnect(t)

SpecConnectDisconnect == InitSetConnected /\ [][NextConnectDisconnect]_vars

(***************************************************************************)
(* Process teardown: the process exits and its two mappings are dropped,   *)
(* which destroys each handle in turn (Drop for SenderHandle / Drop for    *)
(* ReceiverHandle); the address space goes with the process.               *)
(***************************************************************************)
\* the entry a BTreeMap drops next: the one with the least key
first_entry(map) == CHOOSE e \in map : \A f \in map : e.id <= f.id

\* the process of t exits
exit(t) ==
    /\ Enter(t)
    /\ call' = [call EXCEPT ![t] = [Idle EXCEPT !.op = "teardown", !.pc = "t_next",
                                                !.pre = Snapshot(t)]]
    /\ UNCHANGED <<pools, UINTC_MAT_LOCK, sender_mmio, receiver_mmio, context,
                   registries, recovery, panicked>>

\* the next handle of either mapping is taken out and its drop begins; when
\* both mappings are empty the teardown is over
teardown_next(t) ==
    /\ ~panicked
    /\ call[t].op = "teardown"
    /\ call[t].pc \in {"t_next", "done"}
    /\ IF uipi_senders[t] = {} /\ uipi_receivers[t] = {}
       THEN /\ call' = [call EXCEPT ![t] = [@ EXCEPT !.pc = "exited"]]
            /\ listening_receiver_uintc_id' =
                   [listening_receiver_uintc_id EXCEPT ![t] = None]
            /\ memory_set' = [memory_set EXCEPT ![t] = {}]
            /\ UNCHANGED <<uipi_senders, uipi_receivers>>
       ELSE \/ /\ uipi_senders[t] # {}
               /\ LET e == first_entry(uipi_senders[t])
                  IN  /\ uipi_senders' = [uipi_senders EXCEPT ![t] = remove(@, e.id)]
                      /\ call' = [call EXCEPT ![t] =
                                    [@ EXCEPT !.pc = "s_drop_bitmaps", !.id = e.id,
                                              !.uintc_id = e.uintc_id]]
               /\ UNCHANGED <<uipi_receivers, listening_receiver_uintc_id, memory_set>>
            \/ /\ uipi_receivers[t] # {}
               /\ LET e == first_entry(uipi_receivers[t])
                  IN  /\ uipi_receivers' = [uipi_receivers EXCEPT ![t] = remove(@, e.id)]
                      /\ call' = [call EXCEPT ![t] =
                                    [@ EXCEPT !.pc = "r_drop_bitmaps", !.id = e.id,
                                              !.uintc_id = e.uintc_id]]
               /\ UNCHANGED <<uipi_senders, listening_receiver_uintc_id, memory_set>>
    /\ UNCHANGED <<pools, UINTC_MAT_LOCK, sender_mmio, receiver_mmio, context,
                   recovery, panicked, ncalls, serial, library>>

\* endpoints are created and connected, and processes exit
NextTeardown ==
    \/ \E t \in Tasks : sender_ctl_create(t)
    \/ \E t \in Tasks : SenderId_alloc(t)
    \/ \E t \in Tasks : SenderUintcId_alloc(t)
    \/ \E t \in Tasks : set_sender_id(t)
    \/ \E t \in Tasks : drop_sender_bitmaps(t)
    \/ \E t \in Tasks : drop_sender_id(t)
    \/ \E t \in Tasks : SenderId_dealloc(t)
    \/ \E t \in Tasks : SenderUintcId_dealloc(t)
    \/ \E t \in Tasks : receiver_ctl_create(t)
    \/ \E t \in Tasks : ReceiverId_alloc(t)
    \/ \E t \in Tasks : ReceiverUintcId_alloc(t)
    \/ \E t \in Tasks : set_receiver_id(t)
    \/ \E t \in Tasks : receiver_ctl_listen(t)
    \/ \E t \in Tasks : unlisten(t)
    \/ \E t \in Tasks : receiver_ctl_release(t)
    \/ \E t \in Tasks : drop_receiver_bitmaps(t)
    \/ \E t \in Tasks : drop_receiver_id(t)
    \/ \E t \in Tasks : ReceiverId_dealloc(t)
    \/ \E t \in Tasks : ReceiverUintcId_dealloc(t)
    \/ \E t \in Tasks : connection_ctl(t)
    \/ \E t \in Tasks : set_connected_read(t)
    \/ \E t \in Tasks : set_connected_write_back(t)
    \/ \E t \in Tasks : Return(t)
    \/ \E t \in Tasks : exit(t)
    \/ \E t \in Tasks : teardown_next(t)

SpecTeardown == InitSerial /\ [][NextTeardown]_vars

(***************************************************************************)
(* The user library (user/src/ipi.rs), Receiver part.  A library call      *)
(* issues its syscall with the arguments the library passes, the kernel    *)
(* runs the call, and the library acts on the value returned.  The static  *)
(* LISTENING_RECEIVER_UINTC_ID belongs to the process; user_receivers are  *)
(* the Receiver values the program holds.                                  *)
(***************************************************************************)
\* the kernel has returned to the library, which leaves the call behind
LibraryReturn(t, fn, ret) ==
    /\ ~panicked
    /\ call[t].pc = "done"
    /\ call[t].op = "receiver_ctl"
    /\ call' = [call EXCEPT ![t] = Idle]
    /\ returned' = [returned EXCEPT ![t] =
                      [NoResult EXCEPT !.fn = fn, !.ret = ret, !.syscall = TRUE,
                                       !.recorded = LISTENING_RECEIVER_UINTC_ID[t]]]
    /\ UNCHANGED <<pools, UINTC_MAT_LOCK, sender_mmio, receiver_mmio, context,
                   registries, recovery, panicked, ncalls, serial>>

\* Ok(..) when the syscall returned a value >= 0, Err(value) otherwise
ok_or_err(ret) == IF ret >= 0 THEN 0 ELSE ret

\* the Receiver a method was called on, known by the id passed to the kernel
self_of(t) == CHOOSE r \in user_receivers[t] : r.id = call[t].arg

\* Receiver::new, the call: sys_uipi_receiver_ctl(CREATE | GET_INFO, 0, buffer)
Receiver_new(t) ==
    /\ receiver_ctl_create(t)
    /\ call'[t].flags = CREATE + GET_INFO

\* set_receiver_id for a CREATE of Receiver::new, whose buffer is a local of
\* the caller: the kernel can write it
set_receiver_id_local(t) ==
    /\ set_receiver_id(t)
    /\ call'[t].err # "buf"

\* Receiver::new, after the call: the Receiver is what the kernel wrote
Receiver_new_return(t) ==
    /\ call[t].flags = CREATE + GET_INFO
    /\ LibraryReturn(t, "new", ok_or_err(call[t].ret))
    /\ user_receivers' = IF call[t].ret >= 0
                         THEN [user_receivers EXCEPT ![t] = @ \cup {call[t].out[1]}]
                         ELSE user_receivers
    /\ UNCHANGED LISTENING_RECEIVER_UINTC_ID

\* Receiver::listen: Err(-1) at once when the static is Some, else the call
\* sys_uipi_receiver_ctl(LISTEN, self.id, null)
Receiver_listen(t) ==
    \E self \in user_receivers[t] :
        \/ /\ LISTENING_RECEIVER_UINTC_ID[t] # None
           /\ ~panicked
           /\ call[t].pc = "idle"
           /\ returned' = [returned EXCEPT ![t] =
                             [NoResult EXCEPT !.fn = "listen", !.ret = -1,
                                              !.recorded = LISTENING_RECEIVER_UINTC_ID[t]]]
           /\ UNCHANGED <<pools, UINTC_MAT_LOCK, sender_mmio, receiver_mmio, context,
                          registries, call, recovery, panicked, ncalls, serial,
                          LISTENING_RECEIVER_UINTC_ID, user_receivers>>
        \/ /\ LISTENING_RECEIVER_UINTC_ID[t] = None
           /\ receiver_ctl_lookup(t)
           /\ call'[t].flags = LISTEN
           /\ call'[t].arg = self.id

\* Receiver::listen, after the call: the static becomes Some(self.uintc_id)
Receiver_listen_return(t) ==
    /\ call[t].flags = LISTEN
    /\ LibraryReturn(t, "listen", ok_or_err(call[t].ret))
    /\ LISTENING_RECEIVER_UINTC_ID' =
           IF call[t].ret >= 0
           THEN [LISTENING_RECEIVER_UINTC_ID EXCEPT ![t] = self_of(t).uintc_id]
           ELSE LISTENING_RECEIVER_UINTC_ID
    /\ UNCHANGED user_receivers

\* Receiver::unlisten, the call: sys_uipi_receiver_ctl(UNLISTEN, 0, null)
Receiver_unlisten(t) ==
    /\ receiver_ctl_unlisten_only(t)
    /\ call'[t].flags = UNLISTEN

\* Receiver::unlisten, after the call: the static becomes None
Receiver_unlisten_return(t) ==
    /\ call[t].flags = UNLISTEN
    /\ LibraryReturn(t, "unlisten", ok_or_err(call[t].ret))
    /\ LISTENING_RECEIVER_UINTC_ID' =
           IF call[t].ret >= 0
           THEN [LISTENING_RECEIVER_UINTC_ID EXCEPT ![t] = None]
           ELSE LISTENING_RECEIVER_UINTC_ID
    /\ UNCHANGED user_receivers

\* Drop for Receiver, the call: sys_uipi_receiver_ctl(RELEASE, self.id, null)
Receiver_drop(t) ==
    \E self \in user_receivers[t] :
        /\ receiver_ctl_lookup(t)
        /\ call'[t].flags = RELEASE
        /\ call'[t].arg = self.id

\* Drop for Receiver, after the call: the value returned is not looked at and
\* the Receiver is gone; the static is not touched
Receiver_drop_return(t) ==
    /\ call[t].flags = RELEASE
    /\ LibraryReturn(t, "drop", 0)
    /\ user_receivers' = [user_receivers EXCEPT ![t] = @ \ {self_of(t)}]
    /\ UNCHANGED LISTENING_RECEIVER_UINTC_ID

\* Receiver::receive: None when the static is None, else a read of the claim
\* word of the receiver slot the static records, in the page of that slot
Receiver_receive(t) ==
    LET u == LISTENING_RECEIVER_UINTC_ID[t]
    IN  /\ ~panicked
        /\ call[t].pc = "idle"
        /\ returned' = [returned EXCEPT ![t] =
                          [NoResult EXCEPT !.fn = "receive", !.recorded = u,
                                           !.mapped = (u # None /\ receiver_addr_start(u)
                                                                     \in memory_set[t])]]
        /\ UNCHANGED <<pools, UINTC_MAT_LOCK, sender_mmio, receiver_mmio, context,
                       registries, call, recovery, panicked, ncalls, serial,
                       LISTENING_RECEIVER_UINTC_ID, user_receivers>>

\* the programs use receivers through the library only
NextLibrary ==
    \/ \E t \in Tasks : Receiver_new(t)
    \/ \E t \in Tasks : Receiver_listen(t)
    \/ \E t \in Tasks : Receiver_unlisten(t)
    \/ \E t \in Tasks : Receiver_drop(t)
    \/ \E t \in Tasks : Receiver_receive(t)
    \/ \E t \in Tasks : ReceiverId_alloc(t)
    \/ \E t \in Tasks : ReceiverUintcId_alloc(t)
    \/ \E t \in Tasks : set_receiver_id_local(t)
    \/ \E t \in Tasks : receiver_ctl_listen(t)
    \/ \E t \in Tasks : unlisten(t)
    \/ \E t \in Tasks : receiver_ctl_release(t)
    \/ \E t \in Tasks : drop_receiver_bitmaps(t)
    \/ \E t \in Tasks : drop_receiver_id(t)
    \/ \E t \in Tasks : ReceiverId_dealloc(t)
    \/ \E t \in Tasks : ReceiverUintcId_dealloc(t)
    \/ \E t \in Tasks : Receiver_new_return(t)
    \/ \E t \in Tasks : Receiver_listen_return(t)
    \/ \E t \in Tasks : Receiver_unlisten_return(t)
    \/ \E t \in Tasks : Receiver_drop_return(t)

SpecLibrary == InitSerial /\ [][NextLibrary]_vars

(***************************************************************************)
(* The endpoints that hold a hardware index: the registered ones and the   *)
(* handles a call is constructing or dropping.                             *)
(***************************************************************************)
Holder(t, id, u) == [task |-> t, id |-> id, uintc_id |-> u]

Registered(map) == UNION {{Holder(t, e.id, e.uintc_id) : e \in map[t]} : t \in Tasks}

InCall(op) ==
    {Holder(t, call[t].id, call[t].uintc_id) :
        t \in {u \in Tasks : /\ call[u].op = op
                             /\ call[u].pc \notin {"idle", "done"}
                             /\ call[u].uintc_id # None}}

SenderHolders == Registered(uipi_senders) \cup InCall("sender_ctl")

ReceiverHolders == Registered(uipi_receivers) \cup InCall("receiver_ctl")

Range(seq) == {seq[k] : k \in 1..Len(seq)}

\* the values alloc can still return: never handed out, or recycled
Available(a) == (a.current..(a.end - 1)) \cup Range(a.recycled)

Returned(t) == call[t].pc = "done"

Quiescent == \A t \in Tasks : call[t].pc \in {"idle", "done"}

(***************************************************************************)
(* C1  No two live endpoints of one kind hold the same uintc_id, whatever  *)
(* the interleaving of the calls on the harts.                             *)
(***************************************************************************)
C1_UintcIdHeldOnce ==
    /\ \A h1, h2 \in SenderHolders : h1.uintc_id = h2.uintc_id => h1 = h2
    /\ \A h1, h2 \in ReceiverHolders : h1.uintc_id = h2.uintc_id => h1 = h2

\* every value of the receiver pool is held, by endpoints of different tasks
C1_Witness ==
    \E h1, h2 \in ReceiverHolders :
        /\ h1.task # h2.task
        /\ h1.uintc_id # h2.uintc_id
        /\ RECEIVER_UINTC_ID_ALLOCATOR.current = UINTC_MAX_RECEIVER

(***************************************************************************)
(* C2  set_connected(s, r, on) sets or clears exactly bit r % 32 of the    *)
(* word at byte offset 4 * (r / 32) of slot s's enable bitmap, that is     *)
(* bitmap position r, for every r including r >= 32, and leaves every      *)
(* other bit of s and every other slot unchanged.                          *)
(***************************************************************************)
C2_SetConnectedSetsBitR ==
    \A t \in Tasks :
        (Returned(t) /\ call[t].op = "connection_ctl" /\ call[t].ret = 0) =>
            LET c == call[t]
                before == c.pre.system.sender_enable
            IN  sender_enable =
                    [before EXCEPT ![c.sender_uintc_id] =
                        IF c.connect THEN @ \cup {c.uintc_id} ELSE @ \ {c.uintc_id}]

(***************************************************************************)
(* C3  Every connection of the matrix is between endpoints of one process: *)
(* when the enable bit of receiver slot r is set in sender slot s and both *)
(* slots belong to registered endpoints, the two are registered in the     *)
(* same task.                                                              *)
(***************************************************************************)
C3_ConnectionsWithinOneProcess ==
    \A hs \in Registered(uipi_senders), hr \in Registered(uipi_receivers) :
        hr.uintc_id \in sender_enable[hs.uintc_id] => hs.task = hr.task

(***************************************************************************)
(* C4  When a task has no call in progress, each id of its mappings is the *)
(* value of the bound-id register of the slot paired with it; when no task *)
(* has, a slot paired with no registered id holds 0.                       *)
(***************************************************************************)
C4_RegistryMatchesBoundId ==
    /\ \A t \in Tasks : call[t].pc \in {"idle", "done"} =>
           /\ \A e \in uipi_senders[t] : sender_id_reg[e.uintc_id] = e.id
           /\ \A e \in uipi_receivers[t] : receiver_id_reg[e.uintc_id] = e.id
    /\ Quiescent =>
           /\ \A u \in SenderSlots :
                  (\A h \in Registered(uipi_senders) : h.uintc_id # u)
                      => sender_id_reg[u] = 0
           /\ \A u \in ReceiverSlots :
                  (\A h \in Registered(uipi_receivers) : h.uintc_id # u)
                      => receiver_id_reg[u] = 0

\* no call in progress, a sender and a receiver registered, and a slot
\* that was bound and released
C4_Witness ==
    /\ Quiescent
    /\ Registered(uipi_senders) # {}
    /\ Registered(uipi_receivers) # {}
    /\ RECEIVER_UINTC_ID_ALLOCATOR.recycled # <<>>

(***************************************************************************)
(* C5  In every state, also inside construction and destruction, a slot    *)
(* whose bound-id register is 0 has its enable and pending bitmaps 0.      *)
(***************************************************************************)
C5_UnboundSlotIsZero ==
    /\ \A u \in SenderSlots :
           sender_id_reg[u] = 0 => sender_enable[u] = {} /\ sender_pending[u] = {}
    /\ \A u \in ReceiverSlots :
           receiver_id_reg[u] = 0 => receiver_enable[u] = {} /\ receiver_pending[u] = {}

\* a connected sender is being released: drop_sender has just cleared the
\* register of its slot, and a receiver it was connected to is still there
C5_Witness ==
    \E t \in Tasks :
        /\ call[t].pc = "s_dealloc_id"
        /\ contains(call[t].flags, RELEASE)
        /\ sender_id_reg[call[t].uintc_id] = 0
        /\ uipi_receivers[t] # {}
        /\ call[t].pre.senders # {}

(***************************************************************************)
(* C6  A uintc_id that its pool can hand out (never handed out, or         *)
(* recycled) has the bound-id register and all bitmap words of its slot 0. *)
(***************************************************************************)
C6_AvailableSlotIsClean ==
    /\ \A u \in Available(SENDER_UINTC_ID_ALLOCATOR) :
           sender_id_reg[u] = 0 /\ sender_enable[u] = {} /\ sender_pending[u] = {}
    /\ \A u \in Available(RECEIVER_UINTC_ID_ALLOCATOR) :
           receiver_id_reg[u] = 0 /\ receiver_enable[u] = {} /\ receiver_pending[u] = {}

\* a sender was released and its index is back in the pool
C6_Witness ==
    \E t \in Tasks :
        /\ Returned(t) /\ call[t].op = "sender_ctl" /\ call[t].ret > 0
        /\ contains(call[t].flags, RELEASE)
        /\ call[t].uintc_id \in Range(SENDER_UINTC_ID_ALLOCATOR.recycled)

(***************************************************************************)
(* C7  When SenderHandle::new or ReceiverHandle::new returns None, no      *)
(* value of either pool is left allocated by that call: the logical id it  *)
(* had obtained is available again (or held by an endpoint that took it    *)
(* since).                                                                 *)
(***************************************************************************)
C7_FailedNewRollsBack ==
    \A t \in Tasks :
        (Returned(t) /\ call[t].err = "exhausted" /\ call[t].id # None) =>
            IF call[t].op = "sender_ctl"
            THEN \/ call[t].id \in Available(SENDER_ID_ALLOCATOR)
                 \/ \E h \in SenderHolders : h.id = call[t].id
            ELSE \/ call[t].id \in Available(RECEIVER_ID_ALLOCATOR)
                 \/ \E h \in ReceiverHolders : h.id = call[t].id

(***************************************************************************)
(* C8  A sender_ctl or receiver_ctl call that fails with -1 for an invalid *)
(* argument (unknown flag bit, id 0 or wider than 32 bits, user buffer not *)
(* translatable) changes no state: registries, pools, UINTC registers and  *)
(* bitmaps and the listening state are as before the call.                 *)
(***************************************************************************)
SystemNow ==
    [pools |-> pools, sender_mmio |-> sender_mmio, sender_enable |-> sender_enable,
     receiver_mmio |-> receiver_mmio, context |-> context, registries |-> registries]

C8_InvalidArgumentChangesNothing ==
    \A t \in Tasks :
        (/\ Returned(t)
         /\ call[t].op \in {"sender_ctl", "receiver_ctl"}
         /\ call[t].ret = -1
         /\ call[t].err \in {"flags", "id", "buf"}) => call[t].pre.system = SystemNow

(***************************************************************************)
(* C9  With UINTC_MAX_SENDER = N and no sender live, N CREATE calls in     *)
(* succession all succeed and the next fails; so a CREATE fails because a  *)
(* pool is exhausted only when N endpoints of the kind are live.  The same *)
(* for receivers.                                                          *)
(***************************************************************************)
C9_MaxEndpointsCanBeCreated ==
    \A t \in Tasks :
        (Returned(t) /\ call[t].err = "exhausted") =>
            IF call[t].op = "sender_ctl"
            THEN Cardinality(Registered(uipi_senders)) = UINTC_MAX_SENDER
            ELSE Cardinality(Registered(uipi_receivers)) = UINTC_MAX_RECEIVER

(***************************************************************************)
(* C10  Once a CREATE has failed on an exhausted pool, a RELEASE of a live *)
(* endpoint of the kind followed by a CREATE, with no other CREATE in      *)
(* between, does not fail on an exhausted pool (it returns the new id      *)
(* unless the page cannot be mapped or the info buffer is not              *)
(* translatable); this at every later RELEASE and CREATE.                  *)
(***************************************************************************)
C10_CreateAfterReleaseSucceeds ==
    \A t \in Tasks :
        (Returned(t) /\ call[t].armed /\ contains(call[t].flags, CREATE)) =>
            /\ call[t].err # "exhausted"
            /\ call[t].err = "none" => call[t].ret = call[t].id /\ call[t].ret > 0

\* a receiver CREATE that follows an exhaustion and a RELEASE has succeeded
C10_Witness ==
    \E t \in Tasks :
        /\ Returned(t) /\ call[t].armed /\ contains(call[t].flags, CREATE)
        /\ call[t].op = "receiver_ctl"
        /\ call[t].ret > 0

(***************************************************************************)
(* C11  When a receiver_ctl call of task T on hart H has returned, success *)
(* or failure, the context register of H holds the uintc_id recorded in    *)
(* T's listening_receiver_uintc_id, or 0 when the field is None; so after  *)
(* the RELEASE of the receiver T listens on, T records no listening        *)
(* receiver.                                                               *)
(***************************************************************************)
C11_ListeningFieldMirrorsRegister ==
    \A t \in Tasks :
        (Returned(t) /\ call[t].op = "receiver_ctl") =>
            context[hart_id(t)] = id_or_zero(listening_receiver_uintc_id[t])

(***************************************************************************)
(* C12  connect(s, r) followed at once by disconnect(s, r) leaves the      *)
(* enable bit of r in slot s as it was before the connect, set or clear,   *)
(* and every other enable bit unchanged.                                   *)
(***************************************************************************)
PairReturned(t) ==
    /\ Returned(t) /\ call[t].op = "connection_ctl"
    /\ call[t].paired /\ call[t].ret = 0

C12_ConnectDisconnectRestores ==
    \A t \in Tasks :
        PairReturned(t) => sender_enable = call[t].pre.system.sender_enable

\* C12 as the code has it: the pair leaves the bit of r clear whatever it
\* was before (equal to its former value only when that was clear) and all
\* other enable bits unchanged, for r < 32; for r >= 32 neither call
\* touches the bit of r, which keeps its value.
C12_ConnectDisconnectClears ==
    \A t \in Tasks :
        PairReturned(t) =>
            LET c == call[t]
                before == c.pre.system.sender_enable
            IN  IF c.uintc_id < 32
                THEN sender_enable = [before EXCEPT ![c.sender_uintc_id] = @ \ {c.uintc_id}]
                ELSE c.uintc_id \in sender_enable[c.sender_uintc_id]
                         <=> c.uintc_id \in before[c.sender_uintc_id]

\* the pair has returned for a receiver below 32 whose bit was set before
C12_Witness ==
    \E t \in Tasks :
        /\ PairReturned(t)
        /\ call[t].uintc_id < 32
        /\ call[t].uintc_id \in call[t].pre.system.sender_enable[call[t].sender_uintc_id]

(***************************************************************************)
(* C13  When mapping the endpoint page fails during CREATE, the call       *)
(* returns -1 and the system is as before the call: both ids are available *)
(* in their pools again, the bound-id register and the bitmaps of the slot *)
(* are 0, the registries, the mapped pages and the hart registers are      *)
(* those of before.                                                        *)
(***************************************************************************)
SamePools(before, now) ==
    \A k \in 1..4 : Available(before[k]) = Available(now[k])

MapFailed(t) == Returned(t) /\ call[t].err = "map"

C13_MapFailureRollsBack ==
    \A t \in Tasks :
        MapFailed(t) =>
            LET c == call[t]
                before == c.pre.system
            IN  /\ c.ret = -1
                /\ SamePools(before.pools, pools)
                /\ before.sender_mmio = sender_mmio
                /\ before.receiver_mmio = receiver_mmio
                /\ before.context = context
                /\ before.registries = registries
                /\ IF c.op = "sender_ctl"
                   THEN /\ c.id \in Available(SENDER_ID_ALLOCATOR)
                        /\ c.uintc_id \in Available(SENDER_UINTC_ID_ALLOCATOR)
                        /\ sender_id_reg[c.uintc_id] = 0
                        /\ sender_enable[c.uintc_id] = {}
                   ELSE /\ c.id \in Available(RECEIVER_ID_ALLOCATOR)
                        /\ c.uintc_id \in Available(RECEIVER_UINTC_ID_ALLOCATOR)
                        /\ receiver_id_reg[c.uintc_id] = 0
                        /\ receiver_enable[c.uintc_id] = {}

\* a receiver CREATE whose page could not be mapped has returned, in a
\* system where another receiver is registered
C13_Witness ==
    \E t \in Tasks :
        /\ MapFailed(t)
        /\ call[t].op = "receiver_ctl"
        /\ call[t].uintc_id # None
        /\ Registered(uipi_receivers) # {}

(***************************************************************************)
(* C14  sender_ctl and receiver_ctl without CREATE, and connection_ctl,    *)
(* act on the caller's own endpoints only: a call that succeeds acted on   *)
(* endpoints registered in the caller's mappings at its entry, and a call  *)
(* given an id that is no key of the caller's mapping, be it live in       *)
(* another process, returns -1 and changes no registry, pool, UINTC        *)
(* register or bitmap.                                                     *)
(***************************************************************************)
Info(id, u) == [id |-> id, uintc_id |-> u]

C14_OwnEndpointsOnly ==
    \A t \in Tasks :
        LET c == call[t] IN
        /\ (Returned(t) /\ c.err = "notfound") =>
               c.ret = -1 /\ c.pre.system = SystemNow
        /\ (Returned(t) /\ c.op = "connection_ctl" /\ c.ret = 0) =>
               /\ \E e \in c.pre.senders : e.uintc_id = c.sender_uintc_id
               /\ \E e \in c.pre.receivers : e.uintc_id = c.uintc_id
        /\ (Returned(t) /\ c.op = "sender_ctl" /\ c.ret > 0
                /\ ~contains(c.flags, CREATE)) => Info(c.id, c.uintc_id) \in c.pre.senders
        /\ (Returned(t) /\ c.op = "receiver_ctl" /\ c.ret > 0
                /\ ~contains(c.flags, CREATE)) => Info(c.id, c.uintc_id) \in c.pre.receivers

\* connection_ctl has failed for a task that has no endpoint while another
\* task has a sender and a receiver registered
C14_Witness ==
    \E t \in Tasks :
        /\ Returned(t) /\ call[t].op = "connection_ctl" /\ call[t].err = "notfound"
        /\ uipi_senders[t] = {} /\ uipi_receivers[t] = {}
        /\ \E u \in Tasks \ {t} : uipi_senders[u] # {} /\ uipi_receivers[u] # {}

(***************************************************************************)
(* C15  When a process that holds k senders and m receivers has been torn  *)
(* down, all k+m hardware indices and all k+m logical ids are available in *)
(* their pools, and the bound-id register and every enable and pending     *)
(* bitmap word of each of those slots is 0, as after k+m RELEASE calls.    *)
(***************************************************************************)
Exited(t) == call[t].op = "teardown" /\ call[t].pc = "exited"

C15_TeardownReleasesAll ==
    \A t \in Tasks :
        Exited(t) =>
            /\ uipi_senders[t] = {} /\ uipi_receivers[t] = {}
            /\ \A e \in call[t].pre.senders :
                   /\ e.id \in Available(SENDER_ID_ALLOCATOR)
                   /\ e.uintc_id \in Available(SENDER_UINTC_ID_ALLOCATOR)
                   /\ sender_id_reg[e.uintc_id] = 0
                   /\ sender_enable[e.uintc_id] = {}
                   /\ sender_pending[e.uintc_id] = {}
            /\ \A e \in call[t].pre.receivers :
                   /\ e.id \in Available(RECEIVER_ID_ALLOCATOR)
                   /\ e.uintc_id \in Available(RECEIVER_UINTC_ID_ALLOCATOR)
                   /\ receiver_id_reg[e.uintc_id] = 0
                   /\ receiver_enable[e.uintc_id] = {}
                   /\ receiver_pending[e.uintc_id] = {}

\* a process that held a sender connected to one of its two receivers has
\* been torn down
C15_Witness ==
    \E t \in Tasks :
        /\ Exited(t)
        /\ Cardinality(call[t].pre.receivers) >= 2
        /\ \E e \in call[t].pre.senders :
               call[t].pre.system.sender_enable[e.uintc_id] # {}

(***************************************************************************)
(* C16  LISTEN on receiver B while the task listens on receiver A is not   *)
(* refused and overwrites: when the call has returned, the register of the *)
(* hart and the task's listening_receiver_uintc_id hold B's uintc_id and   *)
(* the receivers registered are those of before, A among them; an UNLISTEN *)
(* issued while a LISTEN is in effect leaves the register 0 and the field  *)
(* None.                                                                   *)
(***************************************************************************)
ReceiverCtlReturned(t, flags) ==
    Returned(t) /\ call[t].op = "receiver_ctl" /\ call[t].flags = flags

C16_ListenOverwrites ==
    \A t \in Tasks :
        LET c == call[t] IN
        /\ (ReceiverCtlReturned(t, LISTEN) /\ c.pre.listening # None) =>
               /\ IF c.arg \in keys(c.pre.receivers)
                  THEN c.err = "none" ELSE c.err \in {"id", "notfound"}
               /\ c.err = "none" =>
                      /\ c.ret = c.id
                      /\ context[hart_id(t)] = c.uintc_id
                      /\ listening_receiver_uintc_id[t] = c.uintc_id
                      /\ uipi_receivers[t] = c.pre.receivers
        /\ (ReceiverCtlReturned(t, UNLISTEN) /\ c.pre.listening # None) =>
               /\ context[hart_id(t)] = 0
               /\ listening_receiver_uintc_id[t] = None

\* LISTEN has returned for a receiver B of a task that was listening on
\* another of its receivers
C16_Witness ==
    \E t \in Tasks :
        /\ ReceiverCtlReturned(t, LISTEN)
        /\ call[t].err = "none"
        /\ \E a \in uipi_receivers[t] :
               a.uintc_id = call[t].pre.listening /\ a.uintc_id # call[t].uintc_id

PoolsOf(op, ps) == IF op = "sender_ctl" THEN <<ps[1], ps[2]>> ELSE <<ps[3], ps[4]>>

OtherPoolsOf(op, ps) == IF op = "sender_ctl" THEN <<ps[3], ps[4]>> ELSE <<ps[1], ps[2]>>

MapOf(op, regs, t) == IF op = "sender_ctl" THEN regs[1][t] ELSE regs[2][t]

EndpointCall(t) ==
    /\ Returned(t) /\ call[t].op \in {"sender_ctl", "receiver_ctl"}
    /\ call[t].err = "none" /\ call[t].flags # UNLISTEN

C18_CreateReleaseRoundTrip ==
    \A t \in Tasks :
        EndpointCall(t) =>
            LET c == call[t]
                before == c.pre.system
                pb == PoolsOf(c.op, before.pools)
                pn == PoolsOf(c.op, pools)
                mb == MapOf(c.op, before.registries, t)
                mn == MapOf(c.op, registries, t)
                e == Info(c.id, c.uintc_id)
                create == contains(c.flags, CREATE)
                release == contains(c.flags, RELEASE)
            IN  /\ OtherPoolsOf(c.op, before.pools) = OtherPoolsOf(c.op, pools)
                /\ (create /\ release) =>
                       /\ mn = mb
                       /\ Available(pn[1]) = Available(pb[1])
                       /\ Available(pn[2]) = Available(pb[2])
                /\ (create /\ ~release) =>
                       /\ e \notin mb /\ mn = mb \cup {e}
                       /\ c.id \in Available(pb[1])
                       /\ Available(pn[1]) = Available(pb[1]) \ {c.id}
                       /\ c.uintc_id \in Available(pb[2])
                       /\ Available(pn[2]) = Available(pb[2]) \ {c.uintc_id}
                /\ (~create /\ release) =>
                       /\ e \in mb /\ mn = mb \ {e}
                       /\ c.id \notin Available(pb[1])
                       /\ Available(pn[1]) = Available(pb[1]) \cup {c.id}
                       /\ c.uintc_id \notin Available(pb[2])
                       /\ Available(pn[2]) = Available(pb[2]) \cup {c.uintc_id}

\* a receiver was created and released by one call, in a task that has
\* another receiver, with a recycled value in the pool
C18_Witness ==
    \E t \in Tasks :
        /\ EndpointCall(t) /\ call[t].op = "receiver_ctl"
        /\ contains(call[t].flags, CREATE) /\ contains(call[t].flags, RELEASE)
        /\ uipi_receivers[t] # {}
        /\ call[t].pre.system.pools[4].recycled # <<>>

(***************************************************************************)
(* C19  The pair of logical id and hardware index of an endpoint is fixed  *)
(* for its lifetime: no step changes the pair registered under an id;      *)
(* GET_INFO on a registered id writes the pair registered under that id,   *)
(* GET_INFO with CREATE the pair just registered; and every successful     *)
(* sender_ctl or receiver_ctl call other than the exact UNLISTEN returns   *)
(* the logical id of the endpoint it acted on.                             *)
(***************************************************************************)
PairKept ==
    \A t \in Tasks :
        /\ \A e \in uipi_senders[t], f \in uipi_senders'[t] : f.id = e.id => f = e
        /\ \A e \in uipi_receivers[t], f \in uipi_receivers'[t] : f.id = e.id => f = e

InfoReturned ==
    \A t \in Tasks :
        EndpointCall(t) =>
            LET c == call[t]
                e == Info(c.id, c.uintc_id)
                mb == MapOf(c.op, c.pre.system.registries, t)
                mn == MapOf(c.op, registries, t)
            IN  /\ c.ret = c.id /\ c.ret > 0
                /\ IF contains(c.flags, CREATE)
                   THEN contains(c.flags, RELEASE) \/ e \in mn
                   ELSE c.arg = c.id /\ e \in mb
                /\ IF contains(c.flags, GET_INFO) THEN c.out = <<e>> ELSE c.out = <<>>

C19_PairingFixed == []InfoReturned /\ [][PairKept]_vars

\* GET_INFO has returned for one of two receivers of a task
C19_Witness ==
    \E t \in Tasks :
        /\ EndpointCall(t) /\ call[t].op = "receiver_ctl"
        /\ call[t].flags = GET_INFO
        /\ Cardinality(uipi_receivers[t]) >= 2

(***************************************************************************)
(* C20  The flags of receiver_ctl take effect in the order CREATE,         *)
(* GET_INFO, LISTEN, UNLISTEN, RELEASE: a call with LISTEN and UNLISTEN    *)
(* that succeeds returns the receiver's id and ends with the register of   *)
(* the hart 0 and the task not listening; a call with UNLISTEN and another *)
(* flag whose id is not registered, or whose GET_INFO buffer is not        *)
(* translatable, returns -1 and has neither listened nor unlistened.       *)
(***************************************************************************)
C20_FlagOrder ==
    \A t \in Tasks :
        LET c == call[t] IN
        (Returned(t) /\ c.op = "receiver_ctl" /\ c.flags # UNLISTEN) =>
            /\ (contains(c.flags, LISTEN) /\ contains(c.flags, UNLISTEN)
                    /\ c.err = "none") =>
                   /\ c.ret = c.id /\ c.ret > 0
                   /\ context[hart_id(t)] = 0
                   /\ listening_receiver_uintc_id[t] = None
            /\ (contains(c.flags, LISTEN) /\ ~contains(c.flags, UNLISTEN)
                    /\ ~contains(c.flags, RELEASE) /\ c.err = "none") =>
                   /\ context[hart_id(t)] = c.uintc_id
                   /\ listening_receiver_uintc_id[t] = c.uintc_id
                   /\ Info(c.id, c.uintc_id) \in uipi_receivers[t]
            /\ (c.err \in {"id", "notfound", "buf"}) =>
                   /\ c.ret = -1
                   /\ context = c.pre.system.context
                   /\ listening_receiver_uintc_id[t] = c.pre.listening

\* LISTEN | UNLISTEN has returned for a registered receiver of a task that
\* was listening
C20_Witness ==
    \E t \in Tasks :
        /\ ReceiverCtlReturned(t, LISTEN + UNLISTEN)
        /\ call[t].err = "none"
        /\ call[t].pre.listening # None

(***************************************************************************)
(* C21  No interleaving of sender_ctl, receiver_ctl and connection_ctl     *)
(* calls reaches a registry-inconsistency panic: the kernel has not        *)
(* panicked; a CREATE about to insert finds its fresh id absent from the   *)
(* caller's mapping; a RELEASE about to remove finds the id present; and a *)
(* RELEASE of an id that is not (or no longer) registered returns -1 and   *)
(* leaves the caller's mappings as they were.                              *)
(***************************************************************************)
\* the insert or the remove that t's call is about to make would panic
RegistryPanicEnabled(t) ==
    LET c == call[t] IN
    \/ c.pc = "s_set_id" /\ c.id \in keys(uipi_senders[t])
    \/ c.pc = "r_set_id" /\ c.id \in keys(uipi_receivers[t])
    \/ c.pc = "r_release" /\ c.id \notin keys(uipi_receivers[t])

\* a RELEASE without CREATE has returned
ReleaseReturned(t) ==
    /\ Returned(t)
    /\ call[t].op \in {"sender_ctl", "receiver_ctl"}
    /\ call[t].flags = RELEASE

C21_NoRegistryPanic ==
    /\ ~panicked
    /\ \A t \in Tasks : ~RegistryPanicEnabled(t)
    /\ \A t \in Tasks :
           LET c == call[t]
               before == IF c.op = "sender_ctl" THEN c.pre.senders ELSE c.pre.receivers
           IN  (ReleaseReturned(t) /\ c.arg \notin keys(before)) =>
                   /\ c.ret = -1
                   /\ c.err \in {"id", "notfound"}
                   /\ uipi_senders[t] = c.pre.senders
                   /\ uipi_receivers[t] = c.pre.receivers

\* a second RELEASE of an id has returned -1: the id is not registered and
\* is in the recycled values of its pool
C21_Witness ==
    \E t \in Tasks :
        /\ ReleaseReturned(t)
        /\ call[t].op = "receiver_ctl"
        /\ call[t].err = "notfound"
        /\ call[t].arg \in Range(RECEIVER_ID_ALLOCATOR.recycled)
        /\ uipi_receivers[t] # {}

(***************************************************************************)
(* C22  In every reachable state of each of the four pools: the recycled   *)
(* values have no duplicates, every recycled value v satisfies             *)
(* lo <= v < current, the values held by endpoints (registered, or under   *)
(* construction or destruction) and the recycled values partition          *)
(* [lo, current), and the validity check of a dealloc about to run passes. *)
(***************************************************************************)
\* the values of field f held by the calls of kind op at one of the steps pcs
HeldByCalls(op, pcs, f) ==
    {call[t][f] : t \in {u \in Tasks : call[u].op = op /\ call[u].pc \in pcs}}

LiveSenderIds ==
    {h.id : h \in Registered(uipi_senders)}
        \cup HeldByCalls("sender_ctl",
                         {"s_alloc_uintc", "s_set_id", "s_drop_bitmaps", "s_drop_id",
                          "s_dealloc_id"}, "id")

LiveSenderUintcIds ==
    {h.uintc_id : h \in Registered(uipi_senders)}
        \cup HeldByCalls("sender_ctl",
                         {"s_set_id", "s_drop_bitmaps", "s_drop_id", "s_dealloc_id",
                          "s_dealloc_uintc"}, "uintc_id")

LiveReceiverIds ==
    {h.id : h \in Registered(uipi_receivers)}
        \cup HeldByCalls("receiver_ctl",
                         {"r_alloc_uintc", "r_set_id", "r_drop_bitmaps", "r_drop_id",
                          "r_dealloc_id"}, "id")

LiveReceiverUintcIds ==
    {h.uintc_id : h \in Registered(uipi_receivers)}
        \cup HeldByCalls("receiver_ctl",
                         {"r_set_id", "r_drop_bitmaps", "r_drop_id", "r_dealloc_id",
                          "r_dealloc_uintc"}, "uintc_id")

\* recycled has no duplicates and lies in [lo, current)
RecycledWellFormed(a, lo) ==
    /\ \A j, k \in 1..Len(a.recycled) : a.recycled[j] = a.recycled[k] => j = k
    /\ \A v \in Range(a.recycled) : lo <= v /\ v < a.current

\* live and recycled partition [lo, current)
PoolPartitioned(a, lo, live) ==
    /\ live \cap Range(a.recycled) = {}
    /\ live \cup Range(a.recycled) = lo..(a.current - 1)

\* the debug-mode check of the dealloc that t's call is about to run passes
DeallocCheckPasses(t) ==
    LET c == call[t] IN
    /\ c.pc = "s_dealloc_id" => ~dealloc_check_fails(SENDER_ID_ALLOCATOR, c.id)
    /\ c.pc = "s_dealloc_uintc" => ~dealloc_check_fails(SENDER_UINTC_ID_ALLOCATOR, c.uintc_id)
    /\ c.pc = "r_dealloc_id" => ~dealloc_check_fails(RECEIVER_ID_ALLOCATOR, c.id)
    /\ c.pc = "r_dealloc_uintc" =>
           ~dealloc_check_fails(RECEIVER_UINTC_ID_ALLOCATOR, c.uintc_id)

PoolsWellFormed ==
    /\ \A k \in 1..4 : RecycledWellFormed(pools[k], 1)
    /\ \A t \in Tasks : DeallocCheckPasses(t)

C22_PoolsPartitioned ==
    /\ PoolsWellFormed
    /\ PoolPartitioned(SENDER_ID_ALLOCATOR, 1, LiveSenderIds)
    /\ PoolPartitioned(SENDER_UINTC_ID_ALLOCATOR, 1, LiveSenderUintcIds)
    /\ PoolPartitioned(RECEIVER_ID_ALLOCATOR, 1, LiveReceiverIds)
    /\ PoolPartitioned(RECEIVER_UINTC_ID_ALLOCATOR, 1, LiveReceiverUintcIds)

(***************************************************************************)
(* C23  No hart holds the mutex of an allocator and the matrix mutex at    *)
(* the same time, and no hart holds the mutexes of two allocators; a hart  *)
(* that takes the mutex of an allocator or the matrix mutex holds nothing  *)
(* but the inner lock of its task, which it took before, and a hart that   *)
(* does not hold the inner lock of its task holds no other mutex.          *)
(***************************************************************************)
HoldsMatrix(t) == t \in UINTC_MAT_LOCK

\* from acquire_inner_lock() to the return of the call
HoldsInner(t) == call[t].op # "none" /\ call[t].pc \notin {"idle", "done"}

\* the next step of t's call begins with UINTC_MAT_LOCK.lock()
TakesMatrix(t) ==
    call[t].pc \in {"s_set_id", "r_set_id", "r_listen", "r_unlisten", "r_release",
                    "s_drop_bitmaps", "r_drop_bitmaps", "c_read"}

\* the next step of t's call is X_ALLOCATOR.lock()
TakesAllocator(t) == PoolOfStep(call[t].pc) # 0 /\ ~Locked(t)

C23_LockDiscipline ==
    \A t \in Tasks :
        /\ ~(call[t].locks # {} /\ HoldsMatrix(t))
        /\ Cardinality(call[t].locks) <= 1
        /\ TakesMatrix(t) => call[t].locks = {} /\ ~HoldsMatrix(t) /\ HoldsInner(t)
        /\ TakesAllocator(t) => call[t].locks = {} /\ ~HoldsMatrix(t) /\ HoldsInner(t)
        /\ ~HoldsInner(t) => call[t].locks = {} /\ ~HoldsMatrix(t)

\* one hart holds the mutex of an allocator while another holds the matrix
\* mutex, each inside a call of its task
C23_Witness ==
    \E t, u \in Tasks :
        /\ t # u
        /\ call[t].locks # {}
        /\ HoldsMatrix(u)
        /\ HoldsInner(t) /\ HoldsInner(u)

InMatrixOperation(t) == call[t].pc \in {"c_write", "s_drop_id", "r_drop_id"}

Top(a) == a.recycled[Len(a.recycled)]

C26_RecyclingLifoInStep ==
    \A t \in Tasks :
        EndpointCall(t) =>
            LET c == call[t]
                pb == PoolsOf(c.op, c.pre.system.pools)
                pn == PoolsOf(c.op, pools)
            IN  /\ contains(c.flags, RELEASE) =>
                       /\ pn[1].recycled # <<>> /\ Top(pn[1]) = c.id
                       /\ pn[2].recycled # <<>> /\ Top(pn[2]) = c.uintc_id
                /\ (contains(c.flags, CREATE) /\ pb[1].recycled # <<>>) =>
                       /\ c.id = Top(pb[1])
                       /\ pb[2].recycled # <<>> /\ c.uintc_id = Top(pb[2])

\* a CREATE has returned the receiver released last, of two that were
\* released
C26_Witness ==
    \E t \in Tasks :
        /\ EndpointCall(t) /\ call[t].op = "receiver_ctl"
        /\ call[t].flags = CREATE
        /\ Len(call[t].pre.system.pools[3].recycled) = 2
        /\ call[t].id = call[t].pre.system.pools[3].recycled[2]
        /\ call[t].uintc_id = call[t].pre.system.pools[4].recycled[2]

(***************************************************************************)
(* C27  A connection does not outlive its receiver: when the RELEASE of a  *)
(* receiver with hardware index r has returned, no sender slot has the     *)
(* enable bit of r set; and when the CREATE of a receiver has returned, no *)
(* sender slot has the enable bit of its index set, whoever held the index *)
(* before.                                                                 *)
(***************************************************************************)
\* the sender slots whose enable bitmap has the bit of receiver index r
AuthorisedSenders(r) == {s \in SenderSlots : r \in sender_enable[s]}

C27_ConnectionEndsWithReceiver ==
    \A t \in Tasks :
        (EndpointCall(t) /\ call[t].op = "receiver_ctl"
             /\ (contains(call[t].flags, RELEASE) \/ contains(call[t].flags, CREATE)))
            => AuthorisedSenders(call[t].uintc_id) = {}

(***************************************************************************)
(* C28  The library's record of the listening receiver agrees with the    *)
(* kernel: whenever a process is not inside a syscall and its              *)
(* LISTENING_RECEIVER_UINTC_ID is Some(u), a receiver with uintc_id u is   *)
(* registered in the process, its page is mapped, and u is what the kernel *)
(* has bound for listening; a receive that reads a claim word reads it in  *)
(* a mapped page; and a listen that finds the static Some returns Err(-1)  *)
(* without a syscall.                                                      *)
(***************************************************************************)
\* the static of t records a receiver the kernel holds, maps and listens on
RecordBacked(t) ==
    LET u == LISTENING_RECEIVER_UINTC_ID[t]
    IN  /\ \E e \in uipi_receivers[t] : e.uintc_id = u
        /\ receiver_addr_start(u) \in memory_set[t]
        /\ listening_receiver_uintc_id[t] = u

\* the receive of t read the claim word of a slot whose page is mapped
ReceiveReadsMapped(t) ==
    (returned[t].fn = "receive" /\ returned[t].recorded # None) => returned[t].mapped

\* the listen of t that found a receiver recorded failed without a syscall
SecondListenRefused(t) ==
    (returned[t].fn = "listen" /\ returned[t].recorded # None)
        => (returned[t].ret = -1 /\ ~returned[t].syscall)

C28_LibraryRecordConsistent ==
    \A t \in Tasks :
        /\ (call[t].pc = "idle" /\ LISTENING_RECEIVER_UINTC_ID[t] # None)
               => RecordBacked(t)
        /\ ReceiveReadsMapped(t)
        /\ SecondListenRefused(t)
====
